---- MODULE Spec2Model ----
(***************************************************************************)
(* A model of music-auto's sync/acquisition pipeline: the sync ledger      *)
(* (src/core/sync_state.py), the sync command that drives download, tag,   *)
(* organize and record (src/cli/commands/sync.py) and the cleanup command  *)
(* that removes orphaned records and files (src/cli/commands/clean.py).    *)
(*                                                                         *)
(* One command runs at a time (the ledger is not shared between runs).     *)
(* pc is the position of the running command; "idle" means no command is   *)
(* running.  The remote catalog, the files on disk and the ledger document *)
(* persist between commands; everything else is the running command's      *)
(* memory and is lost when it ends.                                        *)
(***************************************************************************)
EXTENDS Integers, Sequences, FiniteSets, TLC

\* ------------------------------------------------------------- bounds
MaxLen == 1        \* items listed by one remote segment
MaxSel == 2        \* segments named by one sync command
MaxRuns == 2       \* commands started in one behaviour
MaxEdits == 1      \* remote removals in one behaviour

\* ---------------------------------------------------------- vocabulary
NoId == ""                         \* a track without videoId (normalize_track's default)
VideoIds == {"v1", "v2"}
ItemIds == VideoIds \cup {NoId}
LIKED == "__liked__"
Playlists == {"P1"}
Segments == Playlists \cup {LIKED}

Version == 1
NoneTs == 0                        \* Python's None for last_sync; timestamps are >= 1

RECURSIVE SeqsUpTo(_, _)
SeqsUpTo(S, n) ==
  IF n = 0 THEN {<<>>}
  ELSE LET shorter == SeqsUpTo(S, n - 1)
       IN shorter \cup {Append(s, x) : s \in {t \in shorter : Len(t) = n - 1}, x \in S}

Range(s) == {s[k] : k \in 1..Len(s)}

\* ------------------------------------------------------------ provider
\* A raw ytmusicapi track, reduced to the fields the pipeline reads.
RawTrack(id) == [videoId |-> id, title |-> id]

\* YouTubeProvider.normalize_track
normalize_track(t) == [video_id |-> t.videoId, title |-> t.title]

NormalizeAll(raw) == [k \in 1..Len(raw) |-> normalize_track(raw[k])]

\* the non-empty video ids a raw listing holds (clean_command's inner loops)
LiveIds(raw) == {raw[k].videoId : k \in 1..Len(raw)} \ {NoId}

\* --------------------------------------------------------------- paths
TmpPath(id) == [dir |-> "tmp", id |-> id, n |-> 0]
\* a path with a counter that stays in the temp directory
TmpPathNumbered(id, n) == [dir |-> "tmp", id |-> id, n |-> n]
\* "<artist> - <title>[ (n)]<ext>" under the organized tree; n = 0 is the
\* name without a counter.  A track's metadata is determined by its id.
OrgPath(id, n) == [dir |-> "org", id |-> id, n |-> n]

\* organize_track's collision loop: the first counter whose path is free
RECURSIVE FirstFree(_, _, _)
FirstFree(fs, id, n) ==
  IF OrgPath(id, n) \in fs THEN FirstFree(fs, id, n + 1) ELSE n

\* -------------------------------------------------------------- ledger
\* The Python value SyncState._state holds is whatever json.loads returned.
\* shape.top is the type of that value and shape.tracks the type of its
\* "tracks" entry ("absent": no such key); the other fields are the content
\* of a value of the expected shape.  A JSON list stands for the empty list.
DictShape == [top |-> "dict", tracks |-> "dict"]

\* SyncState._load's fresh state
FreshState == [shape |-> DictShape, version |-> Version, last_sync |-> NoneTs,
               tracks |-> <<>>, playlists |-> <<>>]

\* SyncState.is_downloaded
is_downloaded(s, id) == id \in DOMAIN s.tracks

\* mark_downloaded without its effect: no record is written
mark_downloaded_dropped(s, id, path, meta, now) == s

\* SyncState.mark_downloaded
mark_downloaded(s, id, path, meta, now) ==
  [s EXCEPT !.shape.tracks = "dict", !.tracks =
     [k \in DOMAIN s.tracks \cup {id} |->
        IF k = id
        THEN [filepath |-> path, title |-> meta.title, downloaded_at |-> now]
        ELSE s.tracks[k]]]

\* SyncState.mark_playlist_synced
mark_playlist_synced(s, pid, name, count, now) ==
  [s EXCEPT !.playlists =
     [k \in DOMAIN s.playlists \cup {pid} |->
        IF k = pid
        THEN [name |-> name, track_count |-> count, last_sync |-> now]
        ELSE s.playlists[k]]]

\* update_last_sync without its effect
update_last_sync_skipped(s, now) == s

\* SyncState.update_last_sync
update_last_sync(s, now) == [s EXCEPT !.last_sync = now]

\* get_new_tracks without its filter: every track is reported as new
get_new_tracks_unfiltered(s, tracks) == tracks

\* get_new_tracks building its list back to front
get_new_tracks_reversed(s, tracks) ==
  LET new == SelectSeq(tracks, LAMBDA t : t.video_id \notin DOMAIN s.tracks)
  IN [k \in 1..Len(new) |-> new[Len(new) + 1 - k]]

\* SyncState.get_new_tracks
get_new_tracks(s, tracks) ==
  SelectSeq(tracks, LAMBDA t : ~is_downloaded(s, t.video_id))

\* the order in which Python iterates a dict with these keys (one fixed order)
OrderOf(S) ==
  CHOOSE q \in SeqsUpTo(S, Cardinality(S)) : Len(q) = Cardinality(S) /\ Range(q) = S

\* get_orphaned_tracks without its test: every record is reported
get_orphaned_tracks_all(s, current) ==
  LET ids == OrderOf(DOMAIN s.tracks)
  IN [k \in 1..Len(ids) |->
        [video_id |-> ids[k], filepath |-> s.tracks[ids[k]].filepath]]

\* SyncState.get_orphaned_tracks: {"video_id": vid, **info} for every track
\* whose id is not in current_video_ids
get_orphaned_tracks(s, current) ==
  LET ids == OrderOf({id \in DOMAIN s.tracks : id \notin current})
  IN [k \in 1..Len(ids) |->
        [video_id |-> ids[k], filepath |-> s.tracks[ids[k]].filepath]]

\* remove_track without its effect: the record stays
remove_track_kept(s, id) == s

\* SyncState.remove_track
remove_track(s, id) ==
  [s EXCEPT !.tracks = [k \in DOMAIN s.tracks \ {id} |-> s.tracks[k]]]

\* SyncState.total_tracks
total_tracks(s) == Cardinality(DOMAIN s.tracks)

\* SyncState.synced_playlists, as the set of its keys
synced_playlists(s) == DOMAIN s.playlists

\* ------------------------------------------------------------ document
\* The backing file: absent; holding the JSON text of a value; holding text
\* json.loads rejects (empty after open-for-write truncated it, a prefix of a
\* JSON text, or anything else that is not JSON); a file read_text cannot
\* open or read (OSError); or bytes that are not valid UTF-8.
\*
\* A JSON text is modelled by the value it denotes, each node tagged with its
\* JSON type.  Timestamps are numbers standing for isoformat strings, a
\* filepath stands for the string str(path) gave.
JNull == [j |-> "null"]
JArr == [j |-> "array"]
JNum(n) == [j |-> "number", v |-> n]
JStr(x) == [j |-> "string", v |-> x]
JObj(f) == [j |-> "object", v |-> f]

\* json.dumps with ensure_ascii: a character outside ASCII is written as its
\* \uXXXX escape and a backslash is doubled
JsonEscape(x) ==
  CASE x = "e-acute" -> "\\u00e9"
    [] x = "\\u00e9" -> "\\\\u00e9"
    [] OTHER -> x

\* a decoder that leaves escapes as they are
NoUnescape(x) == x

\* json.loads: the escapes are decoded
JsonUnescape(x) ==
  CASE x = "\\u00e9" -> "e-acute"
    [] x = "\\\\u00e9" -> "\\u00e9"
    [] OTHER -> x

\* None is written as null, a timestamp as a string
DumpsTs(ts) == IF ts = NoneTs THEN JNull ELSE JStr(ts)
LoadsTs(j) == IF j.j = "null" THEN NoneTs ELSE j.v

\* json.dumps(self._state, indent=2, default=str)
dumps(s) ==
  CASE s.shape.top = "list" -> JArr
    [] s.shape.top = "null" -> JNull
    [] OTHER ->
       LET keys == {"version", "last_sync", "playlists"}
                     \cup (IF s.shape.tracks = "absent" THEN {} ELSE {"tracks"})
           track(r) == JObj([filepath |-> JStr(r.filepath),
                             title |-> JStr(JsonEscape(r.title)),
                             downloaded_at |-> JStr(r.downloaded_at)])
           playlist(q) == JObj([name |-> JStr(JsonEscape(q.name)),
                                track_count |-> JNum(q.track_count),
                                last_sync |-> DumpsTs(q.last_sync)])
       IN JObj([key \in keys |->
                  CASE key = "version" -> JNum(s.version)
                    [] key = "last_sync" -> DumpsTs(s.last_sync)
                    [] key = "playlists" ->
                         JObj([q \in DOMAIN s.playlists |-> playlist(s.playlists[q])])
                    [] key = "tracks" ->
                         CASE s.shape.tracks = "list" -> JArr
                           [] s.shape.tracks = "null" -> JNull
                           [] OTHER ->
                              JObj([id \in DOMAIN s.tracks |-> track(s.tracks[id])])])

\* json.loads(text)
loads(j) ==
  CASE j.j = "array" -> [FreshState EXCEPT !.shape = [top |-> "list", tracks |-> "absent"]]
    [] j.j = "null" -> [FreshState EXCEPT !.shape = [top |-> "null", tracks |-> "absent"]]
    [] OTHER ->
       LET m == j.v
           shape == IF "tracks" \notin DOMAIN m THEN "absent"
                    ELSE CASE m["tracks"].j = "array" -> "list"
                           [] m["tracks"].j = "null" -> "null"
                           [] OTHER -> "dict"
           track(r) == [filepath |-> r.v.filepath.v,
                        title |-> JsonUnescape(r.v.title.v),
                        downloaded_at |-> r.v.downloaded_at.v]
           playlist(q) == [name |-> JsonUnescape(q.v.name.v),
                           track_count |-> q.v.track_count.v,
                           last_sync |-> LoadsTs(q.v.last_sync)]
       IN [shape |-> [top |-> "dict", tracks |-> shape],
           version |-> m["version"].v,
           last_sync |-> LoadsTs(m["last_sync"]),
           tracks |-> IF shape = "dict"
                      THEN [id \in DOMAIN m["tracks"].v |-> track(m["tracks"].v[id])]
                      ELSE <<>>,
           playlists |-> [q \in DOMAIN m["playlists"].v |->
                            playlist(m["playlists"].v[q])]]

MissingDoc == [k |-> "missing", body |-> JNull]
TruncDoc == [k |-> "trunc", body |-> JNull]
PartialDoc == [k |-> "partial", body |-> JNull]
GarbageDoc == [k |-> "garbage", body |-> JNull]
UnreadableDoc == [k |-> "unreadable", body |-> JNull]
UndecodableDoc == [k |-> "undecodable", body |-> JNull]
\* save: the text written is json.dumps of the state
TextDoc(s) == [k |-> "text", body |-> dumps(s)]

\* SyncState._load: the exception it lets through, "" if none.  It catches
\* json.JSONDecodeError and OSError; read_text's UnicodeDecodeError is neither.
LoadRaises(d) == IF d.k = "undecodable" THEN "UnicodeDecodeError" ELSE ""

\* SyncState._load: the value it returns when it returns
LoadDoc(d) == IF d.k = "text" THEN loads(d.body) ELSE FreshState

\* a well-formed document some earlier tool wrote: one synced playlist, no tracks
SeededState ==
  [FreshState EXCEPT !.playlists =
     [p \in {"P1"} |-> [name |-> "P1", track_count |-> 0, last_sync |-> NoneTs]]]

VARIABLES
  remote,      \* [Segments -> Seq of raw tracks]: what the catalog lists
  edits,       \* remote removals so far
  doc,         \* the ledger document on disk
  files,       \* the paths that exist on disk
  runs,        \* commands started so far; also the clock
  pc,          \* position of the running command
  cmd,         \* the running command and its options
  exc,         \* the exception that ended the command, "" if none
  st,          \* SyncState._state of the running command
  seg_i,       \* segments fetched so far by the running command
  all_tracks,  \* sync_command's all_tracks
  todo,        \* sync_command's tracks_to_download
  i,           \* items of todo, or orphans, processed so far
  downloaded,  \* sync_command's downloaded
  failed,      \* sync_command's failed
  current_ids, \* clean_command's current_ids
  orphaned,    \* clean_command's orphaned
  seg_failed,  \* segments whose fetch failed in the running command
  last,        \* what happened to the item processed last
  fetch_log,   \* the ids download_track was called with in this run, in order
  run_ok,      \* no download and no organize step has failed in this run
  doc0,        \* the document as it was when the running command started
  via,         \* [VideoIds -> segments]: the segments whose sync acquired the id
  prev,        \* how the previous command ended
  op,          \* the ledger operation called last, and what it returned
  nops,        \* ledger operations called so far
  tally,       \* the ids this sync run counted as downloaded / as failed
  san,         \* a call of sanitize_filename: its arguments and its result
  org,         \* calls of organize_track into one target directory
  dl,          \* a call of download_track
  par          \* a call of download_tracks_parallel

vars == <<remote, edits, doc, files, runs, pc, cmd, exc, st, seg_i,
          all_tracks, todo, i, downloaded, failed, current_ids, orphaned,
          seg_failed, last, fetch_log, run_ok, doc0, via, prev, op, nops,
          tally, san, org, dl, par>>

\* what only a direct caller of the SyncState API uses
api_vars == <<op, nops>>

\* what only the sync and clean commands use
cli_vars == <<remote, edits, files, runs, cmd, seg_i, all_tracks, todo, i,
              downloaded, failed, current_ids, orphaned, seg_failed, last,
              fetch_log, run_ok, doc0, via, prev, tally>>

\* what only a direct caller of the organizer or of the download engine uses
lib_vars == <<san, org, dl, par>>

NoTally == [got |-> {}, lost |-> {}]
NoSan == [pc |-> "-", name |-> <<>>, max_length |-> 0, result |-> <<>>]
NoOrg == [pc |-> "-"]
NoDl == [pc |-> "-"]
NoPar == [pc |-> "-"]

\* no library function is being called directly
LibIdle == san = NoSan /\ org = NoOrg /\ dl = NoDl /\ par = NoPar

\* the ledger operation called last: its name, its arguments (arg, input,
\* current), what it raised and returned (bool, items), the state it was
\* called on (before) and the operation that preceded it (follows)
NoOp == [name |-> "", arg |-> "", input |-> <<>>, current |-> {},
         raised |-> "", bool |-> FALSE, items |-> <<>>,
         before |-> FreshState, follows |-> ""]

NoCmd == [name |-> "none", sel |-> <<>>, force |-> FALSE,
          dry_run |-> FALSE, yes |-> FALSE]
NoItem == [id |-> NoId, dl |-> "-", tag |-> "-", org |-> "-", counted |-> "-"]
NoPrev == [name |-> "none", L |-> <<>>, ok |-> FALSE]

Catalogs == [Segments -> SeqsUpTo({RawTrack(id) : id \in ItemIds}, MaxLen)]

Init ==
  /\ remote \in Catalogs
  /\ edits = 0
  /\ doc \in {MissingDoc, TextDoc(SeededState)}
  /\ files = {}
  /\ runs = 0
  /\ pc = "idle"
  /\ cmd = NoCmd
  /\ exc = ""
  /\ st = FreshState
  /\ seg_i = 0
  /\ all_tracks = <<>>
  /\ todo = <<>>
  /\ i = 0
  /\ downloaded = 0
  /\ failed = 0
  /\ current_ids = {}
  /\ orphaned = <<>>
  /\ seg_failed = {}
  /\ last = NoItem
  /\ fetch_log = <<>>
  /\ run_ok = TRUE
  /\ doc0 = doc
  /\ via = [id \in VideoIds |-> {}]
  /\ prev = NoPrev
  /\ op = NoOp
  /\ nops = 0
  /\ tally = NoTally
  /\ LibIdle

\* ------------------------------------------------------------- remote
\* The catalog's owner removes the k-th item of a segment between commands.
RemoteRemove(s, k) ==
  /\ pc = "idle"
  /\ edits < MaxEdits
  /\ k \in 1..Len(remote[s])
  /\ remote' = [remote EXCEPT ![s] =
                  SubSeq(@, 1, k - 1) \o SubSeq(@, k + 1, Len(@))]
  /\ edits' = edits + 1
  /\ UNCHANGED <<doc, files, runs, pc, cmd, exc, st, seg_i, all_tracks, todo, i,
                 downloaded, failed, current_ids, orphaned, seg_failed, last,
                 fetch_log, run_ok, doc0, via, prev>>
  /\ UNCHANGED <<api_vars, lib_vars, tally>>

\* --------------------------------------------------------------- sync
\* What a sync command may be asked to fetch: --liked, --playlist-id (any
\* ids, repeats allowed), or the interactive checkbox (a sub-list of
\* [liked] + playlists, in that order).
Selections ==
  {s \in SeqsUpTo(Segments, MaxSel) :
     /\ s # <<>>
     /\ \/ \A k \in 1..Len(s) : s[k] \in Playlists
        \/ \A k \in 1..Len(s) : (s[k] = LIKED) => (k = 1)}

\* sync_command up to the choice of segments
StartSync(sel, force) ==
  /\ pc = "idle"
  /\ runs < MaxRuns
  /\ runs' = runs + 1
  /\ cmd' = [name |-> "sync", sel |-> sel, force |-> force,
             dry_run |-> FALSE, yes |-> FALSE]
  /\ pc' = "fetch"
  /\ doc0' = doc
  /\ UNCHANGED <<remote, edits, doc, files, exc, st, seg_i, all_tracks, todo, i,
                 downloaded, failed, current_ids, orphaned, seg_failed, last,
                 fetch_log, run_ok, via, prev>>
  /\ UNCHANGED <<api_vars, lib_vars, tally>>

\* _fetch_liked / _fetch_by_ids / _interactive_select: one segment is listed
SyncFetchOk ==
  /\ pc = "fetch"
  /\ cmd.name = "sync"
  /\ seg_i < Len(cmd.sel)
  /\ seg_i' = seg_i + 1
  /\ all_tracks' = all_tracks \o NormalizeAll(remote[cmd.sel[seg_i + 1]])
  /\ UNCHANGED <<remote, edits, doc, files, runs, pc, cmd, exc, st, todo, i,
                 downloaded, failed, current_ids, orphaned, seg_failed, last,
                 fetch_log, run_ok, doc0, via, prev>>
  /\ UNCHANGED <<api_vars, lib_vars, tally>>

\* the provider raises (AuthenticationError for liked songs,
\* PlaylistNotFoundError for a playlist) and nothing in sync_command catches it
SyncFetchFails ==
  /\ pc = "fetch"
  /\ cmd.name = "sync"
  /\ seg_i < Len(cmd.sel)
  /\ seg_failed' = seg_failed \cup {cmd.sel[seg_i + 1]}
  /\ exc' = IF cmd.sel[seg_i + 1] = LIKED THEN "AuthenticationError"
                                          ELSE "PlaylistNotFoundError"
  /\ pc' = "aborted"
  /\ UNCHANGED <<remote, edits, doc, files, runs, cmd, st, seg_i, all_tracks,
                 todo, i, downloaded, failed, current_ids, orphaned, last,
                 fetch_log, run_ok, doc0, via, prev>>
  /\ UNCHANGED <<api_vars, lib_vars, tally>>

\* sync_command lines 84-115: load the ledger, filter, decide whether to go on
SyncPlan ==
  /\ pc = "fetch"
  /\ cmd.name = "sync"
  /\ seg_i = Len(cmd.sel)
  /\ IF all_tracks = <<>>
     THEN /\ pc' = "exit0"
          /\ UNCHANGED <<st, todo>>
     ELSE /\ st' = LoadDoc(doc)
          /\ todo' = IF cmd.force THEN all_tracks
                                  ELSE get_new_tracks(LoadDoc(doc), all_tracks)
          /\ pc' = IF todo' = <<>> THEN "exit0" ELSE "loop"
  /\ UNCHANGED <<remote, edits, doc, files, runs, cmd, exc, seg_i, all_tracks, i,
                 downloaded, failed, current_ids, orphaned, seg_failed, last,
                 fetch_log, run_ok, doc0, via, prev>>
  /\ UNCHANGED <<api_vars, lib_vars, tally>>

\* the track the sync loop is about to process
CurTrack == todo[i + 1]

InLoop ==
  /\ pc = "loop"
  /\ cmd.name = "sync"
  /\ i < Len(todo)

\* the loop skipping a track without video id without counting it
SyncItemNoIdUncounted ==
  /\ InLoop
  /\ CurTrack.video_id = NoId
  /\ i' = i + 1
  /\ last' = [id |-> NoId, dl |-> "-", tag |-> "-", org |-> "-", counted |-> "failed"]
  /\ UNCHANGED <<remote, edits, doc, files, runs, pc, cmd, exc, st, seg_i,
                 all_tracks, todo, downloaded, failed, current_ids, orphaned,
                 seg_failed, fetch_log, run_ok, doc0, via, prev>>
  /\ tally' = [tally EXCEPT !.lost = @ \cup {NoId}]
  /\ UNCHANGED <<api_vars, lib_vars>>

\* sync_command lines 134-138: a track without video id is counted as failed
SyncItemNoId ==
  /\ InLoop
  /\ CurTrack.video_id = NoId
  /\ failed' = failed + 1
  /\ i' = i + 1
  /\ last' = [id |-> NoId, dl |-> "-", tag |-> "-", org |-> "-", counted |-> "failed"]
  /\ UNCHANGED <<remote, edits, doc, files, runs, pc, cmd, exc, st, seg_i,
                 all_tracks, todo, downloaded, current_ids, orphaned, seg_failed,
                 fetch_log, run_ok, doc0, via, prev>>
  /\ tally' = [tally EXCEPT !.lost = @ \cup {NoId}]
  /\ UNCHANGED <<api_vars, lib_vars>>

\* download_track raises DownloadError, caught by the loop (lines 153-155)
SyncItemDownloadFails ==
  /\ InLoop
  /\ CurTrack.video_id # NoId
  /\ failed' = failed + 1
  /\ i' = i + 1
  /\ fetch_log' = Append(fetch_log, CurTrack.video_id)
  /\ run_ok' = FALSE
  /\ last' = [id |-> CurTrack.video_id, dl |-> "DownloadError", tag |-> "-",
              org |-> "-", counted |-> "failed"]
  /\ UNCHANGED <<remote, edits, doc, files, runs, pc, cmd, exc, st, seg_i,
                 all_tracks, todo, downloaded, current_ids, orphaned, seg_failed,
                 doc0, via, prev>>
  /\ tally' = [tally EXCEPT !.lost = @ \cup {CurTrack.video_id}]
  /\ UNCHANGED <<api_vars, lib_vars>>

\* the segments of this run that list the id
ListedIn(id) == {s \in Range(cmd.sel) : id \in LiveIds(remote[s])}

\* _download_and_process: download and tag (tag_file's MetadataError is logged
\* and dropped), then organize_track moves the file and the record is written
SyncItemOrganized(tg) ==
  /\ InLoop
  /\ CurTrack.video_id # NoId
  /\ LET id == CurTrack.video_id
         target == OrgPath(id, FirstFree(files, id, 0))
     IN /\ files' = (files \ {TmpPath(id)}) \cup {target}
        /\ st' = mark_downloaded(st, id, target, CurTrack, runs)
        /\ via' = [via EXCEPT ![id] = @ \cup ListedIn(id)]
        /\ fetch_log' = Append(fetch_log, id)
        /\ last' = [id |-> id, dl |-> "ok", tag |-> tg, org |-> "ok",
                    counted |-> "downloaded"]
  /\ downloaded' = downloaded + 1
  /\ i' = i + 1
  /\ UNCHANGED <<remote, edits, doc, runs, pc, cmd, exc, seg_i, all_tracks, todo,
                 failed, current_ids, orphaned, seg_failed, run_ok, doc0, prev>>
  /\ tally' = [tally EXCEPT !.got = @ \cup {CurTrack.video_id}]
  /\ UNCHANGED <<api_vars, lib_vars>>

\* _download_and_process lines 295-306: shutil.move fails, organize_track
\* raises OrganizationError, final_path falls back to the temp path and the
\* record is written with it
SyncItemMoveFails(tg) ==
  /\ InLoop
  /\ CurTrack.video_id # NoId
  /\ LET id == CurTrack.video_id
     IN /\ files' = files \cup {TmpPath(id)}
        /\ st' = mark_downloaded(st, id, TmpPath(id), CurTrack, runs)
        /\ via' = [via EXCEPT ![id] = @ \cup ListedIn(id)]
        /\ fetch_log' = Append(fetch_log, id)
        /\ last' = [id |-> id, dl |-> "ok", tag |-> tg,
                    org |-> "OrganizationError", counted |-> "downloaded"]
  /\ downloaded' = downloaded + 1
  /\ i' = i + 1
  /\ run_ok' = FALSE
  /\ UNCHANGED <<remote, edits, doc, runs, pc, cmd, exc, seg_i, all_tracks, todo,
                 failed, current_ids, orphaned, seg_failed, doc0, prev>>
  /\ tally' = [tally EXCEPT !.got = @ \cup {CurTrack.video_id}]
  /\ UNCHANGED <<api_vars, lib_vars>>

\* organize_track line 140: target_dir.mkdir raises OSError outside the try
\* block; neither _download_and_process nor the loop catches OSError
SyncItemMkdirFails(tg) ==
  /\ InLoop
  /\ CurTrack.video_id # NoId
  /\ LET id == CurTrack.video_id
     IN /\ files' = files \cup {TmpPath(id)}
        /\ fetch_log' = Append(fetch_log, id)
        /\ last' = [id |-> id, dl |-> "ok", tag |-> tg, org |-> "OSError",
                    counted |-> "-"]
  /\ exc' = "OSError"
  /\ pc' = "aborted"
  /\ run_ok' = FALSE
  /\ UNCHANGED <<remote, edits, doc, runs, cmd, st, seg_i, all_tracks, todo, i,
                 downloaded, failed, current_ids, orphaned, seg_failed, doc0,
                 via, prev>>
  /\ UNCHANGED <<api_vars, lib_vars, tally>>

\* sync_command lines 160-161, first half of save: update_last_sync, then
\* write_text opens the document for writing, which truncates it
SyncSaveOpen ==
  /\ pc = "loop"
  /\ cmd.name = "sync"
  /\ i = Len(todo)
  /\ st' = update_last_sync(st, runs)
  /\ doc' = TruncDoc
  /\ pc' = "write"
  /\ last' = NoItem
  /\ UNCHANGED <<remote, edits, files, runs, cmd, exc, seg_i, all_tracks, todo, i,
                 downloaded, failed, current_ids, orphaned, seg_failed,
                 fetch_log, run_ok, doc0, via, prev>>
  /\ UNCHANGED <<api_vars, lib_vars, tally>>

\* cleanup_temp_dir: every file of the temp directory is unlinked; an unlink
\* that fails is logged and the file stays
TempFiles(fs) == {f \in fs : f.dir = "tmp"}

\* second half of save (the text is written), then the temp sweep and the summary
SyncSaveWrite ==
  /\ pc = "write"
  /\ cmd.name = "sync"
  /\ doc' = TextDoc(st)
  /\ \E kept \in SUBSET TempFiles(files) :
        files' = (files \ TempFiles(files)) \cup kept
  /\ pc' = "done"
  /\ UNCHANGED <<remote, edits, runs, cmd, exc, st, seg_i, all_tracks, todo, i,
                 downloaded, failed, current_ids, orphaned, seg_failed, last,
                 fetch_log, run_ok, doc0, via, prev>>
  /\ UNCHANGED <<api_vars, lib_vars, tally>>

\* write_text raises OSError part-way (disk full): a prefix of the text is left
SaveWriteFails ==
  /\ pc = "write"
  /\ doc' = PartialDoc
  /\ exc' = "OSError"
  /\ pc' = "aborted"
  /\ UNCHANGED <<remote, edits, files, runs, cmd, st, seg_i, all_tracks, todo, i,
                 downloaded, failed, current_ids, orphaned, seg_failed, last,
                 fetch_log, run_ok, doc0, via, prev>>
  /\ UNCHANGED <<api_vars, lib_vars, tally>>

\* -------------------------------------------------------------- process
Running == pc \in {"fetch", "loop", "write", "c_fetch", "c_report", "c_loop"}
Ended == pc \in {"done", "exit0", "aborted"}

\* what is left of a command once its process is gone: nothing of its memory
MemoryLost ==
  /\ pc' = "idle"
  /\ cmd' = NoCmd
  /\ exc' = ""
  /\ st' = FreshState
  /\ seg_i' = 0
  /\ all_tracks' = <<>>
  /\ todo' = <<>>
  /\ i' = 0
  /\ downloaded' = 0
  /\ failed' = 0
  /\ current_ids' = {}
  /\ orphaned' = <<>>
  /\ seg_failed' = {}
  /\ last' = NoItem
  /\ fetch_log' = <<>>
  /\ run_ok' = TRUE
  /\ doc0' = doc
  /\ tally' = NoTally

\* the process is killed (power loss, SIGKILL) at any point of a command
Crash ==
  /\ Running
  /\ MemoryLost
  /\ prev' = NoPrev
  /\ UNCHANGED <<remote, edits, doc, files, runs, via>>
  /\ UNCHANGED <<api_vars, lib_vars>>

\* the command has ended (summary printed, typer.Exit, or an exception that
\* nothing caught) and its process exits
ProcessExit ==
  /\ Ended
  /\ MemoryLost
  /\ prev' = IF cmd.name = "sync" /\ run_ok /\ pc \in {"done", "exit0"}
             THEN [name |-> "sync", L |-> all_tracks, ok |-> TRUE]
             ELSE NoPrev
  /\ UNCHANGED <<remote, edits, doc, files, runs, via>>
  /\ UNCHANGED <<api_vars, lib_vars>>

\* ---------------------------------------------------------------- clean
\* clean_command lines 39-65: load the ledger; nothing to do without tracks
StartClean(dry_run, yes) ==
  /\ pc = "idle"
  /\ runs < MaxRuns
  /\ runs' = runs + 1
  /\ doc0' = doc
  /\ st' = LoadDoc(doc)
  /\ cmd' = [name |-> "clean", sel |-> OrderOf(synced_playlists(LoadDoc(doc))),
             force |-> FALSE, dry_run |-> dry_run, yes |-> yes]
  /\ pc' = IF total_tracks(LoadDoc(doc)) = 0 THEN "exit0" ELSE "c_fetch"
  /\ UNCHANGED <<remote, edits, doc, files, exc, seg_i, all_tracks, todo, i,
                 downloaded, failed, current_ids, orphaned, seg_failed, last,
                 fetch_log, run_ok, via, prev>>
  /\ UNCHANGED <<api_vars, lib_vars, tally>>

\* lines 66-72: one synced playlist is listed and its ids are added
CleanFetchOk ==
  /\ pc = "c_fetch"
  /\ seg_i < Len(cmd.sel)
  /\ seg_i' = seg_i + 1
  /\ current_ids' = current_ids \cup LiveIds(remote[cmd.sel[seg_i + 1]])
  /\ UNCHANGED <<remote, edits, doc, files, runs, pc, cmd, exc, st, all_tracks,
                 todo, i, downloaded, failed, orphaned, seg_failed, last,
                 fetch_log, run_ok, doc0, via, prev>>
  /\ UNCHANGED <<api_vars, lib_vars, tally>>

\* lines 73-74: the listing fails; the exception is logged and the loop goes on
CleanFetchFails ==
  /\ pc = "c_fetch"
  /\ seg_i < Len(cmd.sel)
  /\ seg_i' = seg_i + 1
  /\ seg_failed' = seg_failed \cup {cmd.sel[seg_i + 1]}
  /\ UNCHANGED <<remote, edits, doc, files, runs, pc, cmd, exc, st, all_tracks,
                 todo, i, downloaded, failed, current_ids, orphaned, last,
                 fetch_log, run_ok, doc0, via, prev>>
  /\ UNCHANGED <<api_vars, lib_vars, tally>>

\* lines 77-86: liked songs are listed, then the orphans are computed
CleanLikedOk ==
  /\ pc = "c_fetch"
  /\ seg_i = Len(cmd.sel)
  /\ current_ids' = current_ids \cup LiveIds(remote[LIKED])
  /\ orphaned' = get_orphaned_tracks(st, current_ids')
  /\ pc' = "c_report"
  /\ UNCHANGED <<remote, edits, doc, files, runs, cmd, exc, st, seg_i, all_tracks,
                 todo, i, downloaded, failed, seg_failed, last, fetch_log,
                 run_ok, doc0, via, prev>>
  /\ UNCHANGED <<api_vars, lib_vars, tally>>

\* lines 83-86: listing liked songs fails and is logged; the orphans are
\* computed from the ids gathered so far
CleanLikedFails ==
  /\ pc = "c_fetch"
  /\ seg_i = Len(cmd.sel)
  /\ seg_failed' = seg_failed \cup {LIKED}
  /\ orphaned' = get_orphaned_tracks(st, current_ids)
  /\ pc' = "c_report"
  /\ UNCHANGED <<remote, edits, doc, files, runs, cmd, exc, st, seg_i, all_tracks,
                 todo, i, downloaded, failed, current_ids, last, fetch_log,
                 run_ok, doc0, via, prev>>
  /\ UNCHANGED <<api_vars, lib_vars, tally>>

\* the report without the test of --dry-run (lines 102-104)
CleanReportIgnoresDryRun(confirmed) ==
  /\ pc = "c_report"
  /\ pc' = IF orphaned = <<>> \/ (~cmd.yes /\ ~confirmed)
           THEN "exit0" ELSE "c_loop"
  /\ UNCHANGED <<remote, edits, doc, files, runs, cmd, exc, st, seg_i, all_tracks,
                 todo, i, downloaded, failed, current_ids, orphaned, seg_failed,
                 last, fetch_log, run_ok, doc0, via, prev>>
  /\ UNCHANGED <<api_vars, lib_vars, tally>>

\* lines 88-109: no orphans, --dry-run, or a declined prompt end the command
CleanReport(confirmed) ==
  /\ pc = "c_report"
  /\ pc' = IF orphaned = <<>> \/ cmd.dry_run \/ (~cmd.yes /\ ~confirmed)
           THEN "exit0" ELSE "c_loop"
  /\ UNCHANGED <<remote, edits, doc, files, runs, cmd, exc, st, seg_i, all_tracks,
                 todo, i, downloaded, failed, current_ids, orphaned, seg_failed,
                 last, fetch_log, run_ok, doc0, via, prev>>
  /\ UNCHANGED <<api_vars, lib_vars, tally>>

CurOrphan == orphaned[i + 1]

InCleanLoop ==
  /\ pc = "c_loop"
  /\ i < Len(orphaned)

\* lines 113-130: the orphan's file is unlinked and its record removed
CleanUnlinked ==
  /\ InCleanLoop
  /\ CurOrphan.filepath \in files
  /\ files' = files \ {CurOrphan.filepath}
  /\ st' = remove_track(st, CurOrphan.video_id)
  /\ i' = i + 1
  /\ last' = [NoItem EXCEPT !.id = CurOrphan.video_id, !.counted = "unlinked"]
  /\ UNCHANGED <<remote, edits, doc, runs, pc, cmd, exc, seg_i, all_tracks, todo,
                 downloaded, failed, current_ids, orphaned, seg_failed,
                 fetch_log, run_ok, doc0, via, prev>>
  /\ UNCHANGED <<api_vars, lib_vars, tally>>

\* lines 127-130: unlink raises OSError, which is printed; the record is
\* removed all the same
CleanUnlinkFails ==
  /\ InCleanLoop
  /\ CurOrphan.filepath \in files
  /\ st' = remove_track(st, CurOrphan.video_id)
  /\ i' = i + 1
  /\ last' = [NoItem EXCEPT !.id = CurOrphan.video_id, !.counted = "unlink failed"]
  /\ UNCHANGED <<remote, edits, doc, files, runs, pc, cmd, exc, seg_i, all_tracks,
                 todo, downloaded, failed, current_ids, orphaned, seg_failed,
                 fetch_log, run_ok, doc0, via, prev>>
  /\ UNCHANGED <<api_vars, lib_vars, tally>>

\* line 119: the file does not exist; only the record is removed
CleanFileGone ==
  /\ InCleanLoop
  /\ CurOrphan.filepath \notin files
  /\ st' = remove_track(st, CurOrphan.video_id)
  /\ i' = i + 1
  /\ last' = [NoItem EXCEPT !.id = CurOrphan.video_id, !.counted = "no file"]
  /\ UNCHANGED <<remote, edits, doc, files, runs, pc, cmd, exc, seg_i, all_tracks,
                 todo, downloaded, failed, current_ids, orphaned, seg_failed,
                 fetch_log, run_ok, doc0, via, prev>>
  /\ UNCHANGED <<api_vars, lib_vars, tally>>

\* line 132, first half of save: the document is opened for writing
CleanSaveOpen ==
  /\ pc = "c_loop"
  /\ i = Len(orphaned)
  /\ doc' = TruncDoc
  /\ pc' = "write"
  /\ UNCHANGED <<remote, edits, files, runs, cmd, exc, st, seg_i, all_tracks, todo,
                 i, downloaded, failed, current_ids, orphaned, seg_failed, last,
                 fetch_log, run_ok, doc0, via, prev>>
  /\ UNCHANGED <<api_vars, lib_vars, tally>>

\* line 132, second half of save: the text is written
CleanSaveWrite ==
  /\ pc = "write"
  /\ cmd.name = "clean"
  /\ doc' = TextDoc(st)
  /\ pc' = "done"
  /\ UNCHANGED <<remote, edits, files, runs, cmd, exc, st, seg_i, all_tracks, todo,
                 i, downloaded, failed, current_ids, orphaned, seg_failed, last,
                 fetch_log, run_ok, doc0, via, prev>>
  /\ UNCHANGED <<api_vars, lib_vars, tally>>

\* ----------------------------------------------------------------- spec
Outcomes == {"ok", "MetadataError"}

Next ==
  \/ \E s \in Segments, k \in 1..MaxLen : RemoteRemove(s, k)
  \/ \E sel \in Selections, force \in BOOLEAN : StartSync(sel, force)
  \/ SyncFetchOk
  \/ SyncFetchFails
  \/ SyncPlan
  \/ SyncItemNoId
  \/ SyncItemDownloadFails
  \/ \E tg \in Outcomes : SyncItemOrganized(tg)
  \/ \E tg \in Outcomes : SyncItemMoveFails(tg)
  \/ \E tg \in Outcomes : SyncItemMkdirFails(tg)
  \/ SyncSaveOpen
  \/ SyncSaveWrite
  \/ SaveWriteFails
  \/ \E dry_run \in BOOLEAN, yes \in BOOLEAN : StartClean(dry_run, yes)
  \/ CleanFetchOk
  \/ CleanFetchFails
  \/ CleanLikedOk
  \/ CleanLikedFails
  \/ \E confirmed \in BOOLEAN : CleanReport(confirmed)
  \/ CleanUnlinked
  \/ CleanUnlinkFails
  \/ CleanFileGone
  \/ CleanSaveOpen
  \/ CleanSaveWrite
  \/ Crash
  \/ ProcessExit

Spec == Init /\ [][Next]_vars

\* ======================================================= the ledger API
\* SyncState used directly: a ledger is constructed over a document in any
\* condition and then its operations are called.
MaxOps == 2        \* ledger operations called after the load
MaxItems == 3      \* tracks given to get_new_tracks

\* titles of the metadata given to mark_downloaded: plain, with a character
\* outside ASCII, and the six characters of that character's JSON escape
MetaTitles == {"v1", "e-acute", "\\u00e9"}

\* what a "tracks" entry or a top-level value that is no JSON object may be
IllShapes ==
  {[top |-> "list", tracks |-> "absent"], [top |-> "null", tracks |-> "absent"],
   [top |-> "dict", tracks |-> "list"], [top |-> "dict", tracks |-> "null"],
   [top |-> "dict", tracks |-> "absent"]}

\* ledgers of the expected shape, as an earlier run may have persisted them
LedgerStates ==
  {[FreshState EXCEPT !.tracks =
      [id \in S |-> [filepath |-> OrgPath(id, 0), title |-> id, downloaded_at |-> 1]]]
     : S \in SUBSET VideoIds}

LoadDocs ==
  {MissingDoc, TruncDoc, GarbageDoc, UnreadableDoc, UndecodableDoc}
    \cup {TextDoc(s) : s \in LedgerStates}
    \cup {TextDoc([FreshState EXCEPT !.shape = sh]) : sh \in IllShapes}

InitLoad ==
  /\ doc \in LoadDocs
  /\ pc = "l_new"
  /\ remote = [s \in Segments |-> <<>>]
  /\ edits = 0
  /\ files = {}
  /\ runs = 0
  /\ cmd = NoCmd
  /\ exc = ""
  /\ st = FreshState
  /\ seg_i = 0
  /\ all_tracks = <<>>
  /\ todo = <<>>
  /\ i = 0
  /\ downloaded = 0
  /\ failed = 0
  /\ current_ids = {}
  /\ orphaned = <<>>
  /\ seg_failed = {}
  /\ last = NoItem
  /\ fetch_log = <<>>
  /\ run_ok = TRUE
  /\ doc0 = doc
  /\ via = [id \in VideoIds |-> {}]
  /\ prev = NoPrev
  /\ op = NoOp
  /\ nops = 0
  /\ tally = NoTally
  /\ LibIdle

\* The exception each operation raises on a state of a given shape, "" if
\* none.  dict.get / dict.items do not exist on a list or on None
\* (AttributeError); "in", len and item assignment fail on None, item
\* assignment with a str key fails on a list (TypeError).
is_downloaded_raises(s) ==
  IF s.shape.top # "dict" THEN "AttributeError"
  ELSE IF s.shape.tracks = "null" THEN "TypeError" ELSE ""

mark_downloaded_raises(s) ==
  IF s.shape.top # "dict" \/ s.shape.tracks \in {"list", "null"}
  THEN "TypeError" ELSE ""

remove_track_raises(s) ==
  IF s.shape.top # "dict" THEN "AttributeError"
  ELSE IF s.shape.tracks = "null" THEN "TypeError" ELSE ""

get_orphaned_tracks_raises(s) ==
  IF s.shape.top # "dict" \/ s.shape.tracks \in {"list", "null"}
  THEN "AttributeError" ELSE ""

get_new_tracks_raises(s, tracks) ==
  IF tracks = <<>> THEN "" ELSE is_downloaded_raises(s)

mark_playlist_synced_raises(s) ==
  IF s.shape.top # "dict" THEN "TypeError" ELSE ""

update_last_sync_raises(s) ==
  IF s.shape.top # "dict" THEN "TypeError" ELSE ""

\* SyncState.__init__: the first load, or a new SyncState on the same path
\* right after a save
ApiLoad ==
  /\ pc = "l_new" \/ (pc = "l_ready" /\ op.name = "save")
  /\ exc' = LoadRaises(doc)
  /\ pc' = IF LoadRaises(doc) = "" THEN "l_ready" ELSE "l_raised"
  /\ st' = IF LoadRaises(doc) = "" THEN LoadDoc(doc) ELSE st
  /\ op' = [NoOp EXCEPT !.name = "load", !.raised = LoadRaises(doc),
                        !.before = st, !.follows = op.name]
  /\ UNCHANGED <<doc, nops>>
  /\ UNCHANGED <<cli_vars, lib_vars>>

\* an operation is called on the loaded ledger; raising ends the caller
ApiIsDownloaded(id) ==
  /\ pc = "l_ready"
  /\ nops < MaxOps
  /\ nops' = nops + 1
  /\ exc' = is_downloaded_raises(st)
  /\ pc' = IF is_downloaded_raises(st) = "" THEN "l_ready" ELSE "l_raised"
  /\ op' = [NoOp EXCEPT !.name = "is_downloaded", !.arg = id,
                        !.raised = is_downloaded_raises(st),
                        !.bool = is_downloaded_raises(st) = "" /\ is_downloaded(st, id),
                        !.before = st, !.follows = op.name]
  /\ st' = st
  /\ UNCHANGED doc
  /\ UNCHANGED <<cli_vars, lib_vars>>

ApiGetNewTracks(tracks) ==
  /\ pc = "l_ready"
  /\ nops < MaxOps
  /\ nops' = nops + 1
  /\ exc' = get_new_tracks_raises(st, tracks)
  /\ pc' = IF get_new_tracks_raises(st, tracks) = "" THEN "l_ready" ELSE "l_raised"
  /\ op' = [NoOp EXCEPT !.name = "get_new_tracks", !.input = tracks,
                        !.raised = get_new_tracks_raises(st, tracks),
                        !.items = IF get_new_tracks_raises(st, tracks) = ""
                                  THEN get_new_tracks(st, tracks) ELSE <<>>,
                        !.before = st, !.follows = op.name]
  /\ st' = st
  /\ UNCHANGED doc
  /\ UNCHANGED <<cli_vars, lib_vars>>

ApiMarkDownloaded(id, title) ==
  /\ pc = "l_ready"
  /\ nops < MaxOps
  /\ nops' = nops + 1
  /\ exc' = mark_downloaded_raises(st)
  /\ pc' = IF mark_downloaded_raises(st) = "" THEN "l_ready" ELSE "l_raised"
  /\ op' = [NoOp EXCEPT !.name = "mark_downloaded", !.arg = id,
                        !.raised = mark_downloaded_raises(st),
                        !.before = st, !.follows = op.name]
  /\ st' = IF mark_downloaded_raises(st) = ""
           THEN mark_downloaded(st, id, OrgPath(id, 0),
                                [video_id |-> id, title |-> title], nops + 1)
           ELSE st
  /\ UNCHANGED doc
  /\ UNCHANGED <<cli_vars, lib_vars>>

\* a remove_track that also writes the document
ApiRemoveTrackSaving(id) ==
  /\ pc = "l_ready"
  /\ nops < MaxOps
  /\ nops' = nops + 1
  /\ exc' = remove_track_raises(st)
  /\ pc' = IF remove_track_raises(st) = "" THEN "l_ready" ELSE "l_raised"
  /\ op' = [NoOp EXCEPT !.name = "remove_track", !.arg = id,
                        !.raised = remove_track_raises(st),
                        !.before = st, !.follows = op.name]
  /\ st' = IF remove_track_raises(st) = "" THEN remove_track(st, id) ELSE st
  /\ doc' = TextDoc(st')
  /\ UNCHANGED <<cli_vars, lib_vars>>

ApiRemoveTrack(id) ==
  /\ pc = "l_ready"
  /\ nops < MaxOps
  /\ nops' = nops + 1
  /\ exc' = remove_track_raises(st)
  /\ pc' = IF remove_track_raises(st) = "" THEN "l_ready" ELSE "l_raised"
  /\ op' = [NoOp EXCEPT !.name = "remove_track", !.arg = id,
                        !.raised = remove_track_raises(st),
                        !.before = st, !.follows = op.name]
  /\ st' = IF remove_track_raises(st) = "" THEN remove_track(st, id) ELSE st
  /\ UNCHANGED doc
  /\ UNCHANGED <<cli_vars, lib_vars>>

ApiGetOrphaned(current) ==
  /\ pc = "l_ready"
  /\ nops < MaxOps
  /\ nops' = nops + 1
  /\ exc' = get_orphaned_tracks_raises(st)
  /\ pc' = IF get_orphaned_tracks_raises(st) = "" THEN "l_ready" ELSE "l_raised"
  /\ op' = [NoOp EXCEPT !.name = "get_orphaned_tracks", !.current = current,
                        !.raised = get_orphaned_tracks_raises(st),
                        !.items = IF get_orphaned_tracks_raises(st) = ""
                                  THEN get_orphaned_tracks(st, current) ELSE <<>>,
                        !.before = st, !.follows = op.name]
  /\ st' = st
  /\ UNCHANGED doc
  /\ UNCHANGED <<cli_vars, lib_vars>>

ApiMarkPlaylistSynced(pid) ==
  /\ pc = "l_ready"
  /\ nops < MaxOps
  /\ nops' = nops + 1
  /\ exc' = mark_playlist_synced_raises(st)
  /\ pc' = IF mark_playlist_synced_raises(st) = "" THEN "l_ready" ELSE "l_raised"
  /\ op' = [NoOp EXCEPT !.name = "mark_playlist_synced", !.arg = pid,
                        !.raised = mark_playlist_synced_raises(st),
                        !.before = st, !.follows = op.name]
  /\ st' = IF mark_playlist_synced_raises(st) = ""
           THEN mark_playlist_synced(st, pid, pid, 1, nops + 1)
           ELSE st
  /\ UNCHANGED doc
  /\ UNCHANGED <<cli_vars, lib_vars>>

ApiUpdateLastSync ==
  /\ pc = "l_ready"
  /\ nops < MaxOps
  /\ nops' = nops + 1
  /\ exc' = update_last_sync_raises(st)
  /\ pc' = IF update_last_sync_raises(st) = "" THEN "l_ready" ELSE "l_raised"
  /\ op' = [NoOp EXCEPT !.name = "update_last_sync",
                        !.raised = update_last_sync_raises(st),
                        !.before = st, !.follows = op.name]
  /\ st' = IF update_last_sync_raises(st) = ""
           THEN update_last_sync(st, nops + 1)
           ELSE st
  /\ UNCHANGED doc
  /\ UNCHANGED <<cli_vars, lib_vars>>

\* SyncState.save: the whole text is written
ApiSave ==
  /\ pc = "l_ready"
  /\ op.name \notin {"save", "load"}
  /\ doc' = TextDoc(st)
  /\ op' = [NoOp EXCEPT !.name = "save", !.before = st, !.follows = op.name]
  /\ UNCHANGED <<pc, exc, st, nops>>
  /\ UNCHANGED <<cli_vars, lib_vars>>

\* SyncState.save: write_text raises OSError, at the open or after it
\* truncated the file
ApiSaveFails ==
  /\ pc = "l_ready"
  /\ op.name \notin {"save", "load"}
  /\ doc' \in {doc, TruncDoc}
  /\ exc' = "OSError"
  /\ pc' = "l_raised"
  /\ op' = [NoOp EXCEPT !.name = "save", !.raised = "OSError",
                        !.before = st, !.follows = op.name]
  /\ UNCHANGED <<st, nops>>
  /\ UNCHANGED <<cli_vars, lib_vars>>

NextLoad ==
  \/ ApiLoad
  \/ \E id \in VideoIds : ApiIsDownloaded(id)
  \/ \E tracks \in SeqsUpTo({normalize_track(RawTrack(id)) : id \in ItemIds}, MaxItems) :
        ApiGetNewTracks(tracks)
  \/ \E id \in VideoIds, title \in MetaTitles : ApiMarkDownloaded(id, title)
  \/ \E id \in VideoIds : ApiRemoveTrack(id)
  \/ \E current \in SUBSET VideoIds : ApiGetOrphaned(current)
  \/ \E pid \in Playlists : ApiMarkPlaylistSynced(pid)
  \/ ApiUpdateLastSync
  \/ ApiSave
  \/ ApiSaveFails

SpecLoad == InitLoad /\ [][NextLoad]_vars

\* ============================================================ organizer
\* Strings are sequences of characters; a character is a one-letter string or
\* the name of a character that has no letter: TAB (U+0009), DEL (U+007F),
\* NBSP (U+00A0, whose compatibility decomposition is a space) and ELL
\* (U+2026, whose compatibility decomposition is three dots).
MaxName == 3       \* length of the strings given to sanitize_filename
MaxN == 8          \* largest max_length / max_filename_length tried

\* the commands' variables while only a library function is exercised
ProgIdle ==
  /\ remote = [s \in Segments |-> <<>>]
  /\ edits = 0
  /\ doc = MissingDoc
  /\ files = {}
  /\ runs = 0
  /\ pc = "idle"
  /\ cmd = NoCmd
  /\ exc = ""
  /\ st = FreshState
  /\ seg_i = 0
  /\ all_tracks = <<>>
  /\ todo = <<>>
  /\ i = 0
  /\ downloaded = 0
  /\ failed = 0
  /\ current_ids = {}
  /\ orphaned = <<>>
  /\ seg_failed = {}
  /\ last = NoItem
  /\ fetch_log = <<>>
  /\ run_ok = TRUE
  /\ doc0 = doc
  /\ via = [id \in VideoIds |-> {}]
  /\ prev = NoPrev
  /\ op = NoOp
  /\ nops = 0
  /\ tally = NoTally

prog_vars == <<cli_vars, api_vars, doc, pc, exc, st>>

Chars == {"a", " ", ".", "/", "&", "-", "TAB", "DEL", "ELL"}
Unknown == <<"U", "n", "k", "n", "o", "w", "n">>

RECURSIVE Flatten(_)
\* concatenation of a sequence of strings
Flatten(ss) == IF ss = <<>> THEN <<>> ELSE Head(ss) \o Flatten(Tail(ss))

\* unicodedata.normalize("NFKD", name)
NFKD(name) ==
  Flatten([k \in 1..Len(name) |->
     CASE name[k] = "ELL" -> <<".", ".", ".">>
       [] name[k] = "NBSP" -> <<" ">>
       [] OTHER -> <<name[k]>>])

\* INVALID_CHARS: [<>:"/\|?*\x00-\x1f]
InvalidChars == {"<", ">", ":", "\"", "/", "\\", "|", "?", "*", "TAB"}

\* characters of Unicode category Cc
ControlChars == {"TAB", "DEL"}

\* what Python's \s and str.strip() take for whitespace, after INVALID_CHARS
\* has removed U+0009..U+000D and U+001C..U+001F
Whitespace == {" ", "NBSP"}

RECURSIVE Collapse(_, _, _)
\* re.sub of every run of characters of S by the one character c
Collapse(name, S, c) ==
  IF name = <<>> THEN <<>>
  ELSE IF Head(name) \in S
       THEN IF Len(name) > 1 /\ name[2] \in S
            THEN Collapse(Tail(name), S, c)
            ELSE <<c>> \o Collapse(Tail(name), S, c)
       ELSE <<Head(name)>> \o Collapse(Tail(name), S, c)

RECURSIVE CollapseDashes(_)
\* MULTI_DASH.sub("-", name): a run of two or more dashes becomes one dash
CollapseDashes(name) ==
  IF name = <<>> THEN <<>>
  ELSE IF Head(name) = "-" /\ Len(name) > 1 /\ name[2] = "-"
       THEN CollapseDashes(Tail(name))
       ELSE <<Head(name)>> \o CollapseDashes(Tail(name))

RECURSIVE LStrip(_, _)
LStrip(name, S) ==
  IF name # <<>> /\ Head(name) \in S THEN LStrip(Tail(name), S) ELSE name

RECURSIVE RStrip(_, _)
\* str.rstrip(chars)
RStrip(name, S) ==
  IF name # <<>> /\ name[Len(name)] \in S
  THEN RStrip(SubSeq(name, 1, Len(name) - 1), S) ELSE name

\* str.strip(chars)
Strip(name, S) == RStrip(LStrip(name, S), S)

\* name[:n], for a negative n too
Slice(name, n) ==
  IF n >= 0
  THEN SubSeq(name, 1, IF n < Len(name) THEN n ELSE Len(name))
  ELSE SubSeq(name, 1, IF Len(name) + n > 0 THEN Len(name) + n ELSE 0)

\* name.replace("&", "and")
ReplaceAmp(name) ==
  Flatten([k \in 1..Len(name) |->
     IF name[k] = "&" THEN <<"a", "n", "d">> ELSE <<name[k]>>])

\* lines 51-53: truncate to max_length and drop what dangles
Truncated(name, max_length) ==
  IF Len(name) > max_length
  THEN RStrip(Slice(name, max_length), {".", " "}) ELSE name

\* sanitize_filename
sanitize_filename(name, max_length) ==
  LET n1 == NFKD(name)
      n2 == SelectSeq(n1, LAMBDA c : c \notin InvalidChars)
      n3 == ReplaceAmp(n2)
      n4 == Strip(Collapse(n3, Whitespace, " "), Whitespace)
      n5 == CollapseDashes(n4)
      n6 == Strip(n5, {".", " "})
      n7 == Truncated(n6, max_length)
  IN IF n7 = <<>> THEN Unknown ELSE n7

\* sanitize_dirname
sanitize_dirname(name, max_length) == sanitize_filename(name, max_length)

\* --- sanitize_filename called on any short string with any small max_length
InitSanitize ==
  /\ ProgIdle
  /\ org = NoOrg /\ dl = NoDl /\ par = NoPar
  /\ san \in [pc : {"s_call"}, name : SeqsUpTo(Chars, MaxName),
              max_length : 1..MaxN, result : {<<>>}]

SanitizeReturns ==
  /\ san.pc = "s_call"
  /\ san' = [san EXCEPT !.pc = "s_ret",
                        !.result = sanitize_filename(san.name, san.max_length)]
  /\ UNCHANGED <<org, dl, par>>
  /\ UNCHANGED prog_vars

NextSanitize == SanitizeReturns

SpecSanitize == InitSanitize /\ [][NextSanitize]_vars

\* --- organize_track called again and again with the same metadata
MaxFileLen == 13   \* largest max_filename_length given to organize_track
MaxCalls == 3      \* calls of organize_track
MaxCounter == 5    \* value of the collision counter at which the model stops

DirMaxLen == 80    \* sanitize_dirname's default max_length

RawArtist == <<"b">>
Titles == {<<>>, <<"a">>, <<"a", "a", "a">>, <<"a", ".", "&">>}
Exts == {<<>>, <<".", "m", "p", "3">>}

Digits == <<"0", "1", "2", "3", "4", "5", "6", "7", "8", "9">>

RECURSIVE Dec(_)
\* str(n) of a natural number
Dec(n) == IF n < 10 THEN <<Digits[n + 1]>>
          ELSE Dec(n \div 10) \o <<Digits[(n % 10) + 1]>>

\* a stem that is kept whole whatever the budget is
WholeStem(stem, n) == stem

\* lines 135-136 and 147-148: cut the stem to max_name_len characters
FitStem(stem, n) ==
  IF Len(stem) > n THEN RStrip(Slice(stem, n), {".", " "}) ELSE stem

\* line 134
max_name_len(o) == o.max_filename_length - Len(o.ext)

\* line 131: f"{artist} - {title}"
ArtistTitle(o) ==
  sanitize_dirname(RawArtist, DirMaxLen) \o <<" ", "-", " ">>
    \o sanitize_filename(o.title, o.max_filename_length)

\* lines 131-138: the first file name tried
FirstName(o) == FitStem(ArtistTitle(o), max_name_len(o)) \o o.ext

\* lines 146-149: the file name tried for a value of the counter
NumberedName(o, counter) ==
  FitStem(ArtistTitle(o) \o <<" ", "(">> \o Dec(counter) \o <<")">>,
          max_name_len(o)) \o o.ext

InitOrganize ==
  /\ ProgIdle
  /\ san = NoSan /\ dl = NoDl /\ par = NoPar
  /\ org \in [pc : {"o_idle"}, title : Titles, ext : Exts,
              max_filename_length : 1..MaxFileLen, dir : {{}}, counter : {0},
              target : {<<>>}, made : {<<>>}, calls : {0}, raised : {""},
              target_dir : {FALSE}, missing : {FALSE}, source : {FALSE},
              before : {[dir |-> {}, target_dir |-> FALSE]}]

\* organize_track lines 108-144: the source exists, the names are built, the
\* target directory is made and the first target path is chosen.
\* org.target_dir: the target directory exists; org.missing: the call made
\* last found no source; org.source: the source file of that call exists;
\* org.before: the disk when that call began
OrganizeCall ==
  /\ org.pc = "o_idle"
  /\ org.calls < MaxCalls
  /\ org' = [org EXCEPT !.pc = "o_loop", !.calls = @ + 1, !.raised = "",
                        !.target = FirstName(org), !.counter = 1,
                        !.target_dir = TRUE, !.missing = FALSE,
                        !.source = TRUE,
                        !.before = [dir |-> org.dir, target_dir |-> org.target_dir]]
  /\ UNCHANGED <<san, dl, par>>
  /\ UNCHANGED prog_vars

\* the test of the source placed after target_dir.mkdir: the directory is
\* made before OrganizationError is raised
OrganizeSourceMissingLate ==
  /\ org.pc = "o_idle"
  /\ org.calls < MaxCalls
  /\ org' = [org EXCEPT !.calls = @ + 1, !.raised = "OrganizationError",
                        !.target_dir = TRUE, !.missing = TRUE, !.source = FALSE,
                        !.before = [dir |-> org.dir, target_dir |-> org.target_dir]]
  /\ UNCHANGED <<san, dl, par>>
  /\ UNCHANGED prog_vars

\* lines 108-109: the source file is not there; OrganizationError is raised
\* before anything is made or moved
OrganizeSourceMissing ==
  /\ org.pc = "o_idle"
  /\ org.calls < MaxCalls
  /\ org' = [org EXCEPT !.calls = @ + 1, !.raised = "OrganizationError",
                        !.missing = TRUE, !.source = FALSE,
                        !.before = [dir |-> org.dir, target_dir |-> org.target_dir]]
  /\ UNCHANGED <<san, dl, par>>
  /\ UNCHANGED prog_vars

\* lines 145-150: the target exists, the next name is tried
CollisionStep ==
  /\ org.pc = "o_loop"
  /\ org.target \in org.dir
  /\ org.counter < MaxCounter
  /\ org' = [org EXCEPT !.target = NumberedName(org, org.counter),
                        !.counter = @ + 1]
  /\ UNCHANGED <<san, dl, par>>
  /\ UNCHANGED prog_vars

\* lines 152-155: the target is free and the file is moved there
OrganizeMove ==
  /\ org.pc = "o_loop"
  /\ org.target \notin org.dir
  /\ org' = [org EXCEPT !.pc = "o_idle", !.dir = @ \cup {org.target},
                        !.made = Append(@, org.target), !.source = FALSE]
  /\ UNCHANGED <<san, dl, par>>
  /\ UNCHANGED prog_vars

\* lines 156-159: shutil.move raises OSError.  Its os.rename failed and
\* nothing changed, or (source and target on different filesystems) its
\* copy to the target or its unlink of the source failed, which leaves the
\* source and a whole or partial copy at the target
OrganizeMoveFails(copied) ==
  /\ org.pc = "o_loop"
  /\ org.target \notin org.dir
  /\ org' = [org EXCEPT !.pc = "o_idle", !.raised = "OrganizationError",
                        !.dir = IF copied THEN @ \cup {org.target} ELSE @]
  /\ UNCHANGED <<san, dl, par>>
  /\ UNCHANGED prog_vars

NextOrganize ==
  \/ OrganizeCall
  \/ OrganizeSourceMissing
  \/ CollisionStep
  \/ OrganizeMove
  \/ \E copied \in BOOLEAN : OrganizeMoveFails(copied)

SpecOrganize == InitOrganize /\ [][NextOrganize]_vars

\* --- cleanup_temp_dir called once on a path that is absent, a file, or a
\* directory holding regular files and subdirectories.  org.stuck: the files
\* whose unlink fails; org.readable: the directory can be listed;
\* org.todo: the entries the loop has not visited yet
TmpNames == {"f1", "f2", "f3"}
SubDirs == {"d"}

InitCleanup ==
  /\ ProgIdle
  /\ san = NoSan /\ dl = NoDl /\ par = NoPar
  /\ \E kind \in {"absent", "file", "dir"}, fs \in SUBSET TmpNames,
        ds \in SUBSET SubDirs, stuck \in SUBSET TmpNames, readable \in BOOLEAN :
        /\ kind # "dir" => (fs = {} /\ ds = {} /\ readable)
        /\ stuck \subseteq fs
        /\ org = [pc |-> "t_call", kind |-> kind, files |-> fs, subdirs |-> ds,
                  stuck |-> stuck, readable |-> readable, todo |-> {},
                  raised |-> "",
                  before |-> [kind |-> kind, files |-> fs, subdirs |-> ds]]

\* line 169: the path does not exist or is no directory; nothing is done
CleanupNoDir ==
  /\ org.pc = "t_call"
  /\ org.kind # "dir"
  /\ org' = [org EXCEPT !.pc = "t_done"]
  /\ UNCHANGED <<san, dl, par>>
  /\ UNCHANGED prog_vars

\* line 171: the directory is listed
CleanupList ==
  /\ org.pc = "t_call"
  /\ org.kind = "dir" /\ org.readable
  /\ org' = [org EXCEPT !.pc = "t_loop", !.todo = org.files \cup org.subdirs]
  /\ UNCHANGED <<san, dl, par>>
  /\ UNCHANGED prog_vars

\* line 171: iterdir raises (the directory cannot be read); the call is not
\* in a try
CleanupListFails ==
  /\ org.pc = "t_call"
  /\ org.kind = "dir" /\ ~org.readable
  /\ org' = [org EXCEPT !.pc = "t_raised", !.raised = "PermissionError"]
  /\ UNCHANGED <<san, dl, par>>
  /\ UNCHANGED prog_vars

\* lines 172-174: a regular file is unlinked
CleanupUnlink(f) ==
  /\ org.pc = "t_loop"
  /\ f \in org.todo /\ f \in org.files /\ f \notin org.stuck
  /\ org' = [org EXCEPT !.files = @ \ {f}, !.todo = @ \ {f}]
  /\ UNCHANGED <<san, dl, par>>
  /\ UNCHANGED prog_vars

\* lines 175-176: unlink raises OSError, which is logged; the file stays
CleanupUnlinkFails(f) ==
  /\ org.pc = "t_loop"
  /\ f \in org.todo /\ f \in org.files /\ f \in org.stuck
  /\ org' = [org EXCEPT !.todo = @ \ {f}]
  /\ UNCHANGED <<san, dl, par>>
  /\ UNCHANGED prog_vars

\* line 172: an entry that is no regular file is passed over
CleanupSkipsDir(d) ==
  /\ org.pc = "t_loop"
  /\ d \in org.todo /\ d \in org.subdirs
  /\ org' = [org EXCEPT !.todo = @ \ {d}]
  /\ UNCHANGED <<san, dl, par>>
  /\ UNCHANGED prog_vars

\* lines 177-178: the directory is empty and rmdir removes it
CleanupRmdir ==
  /\ org.pc = "t_loop"
  /\ org.todo = {}
  /\ org.files = {} /\ org.subdirs = {}
  /\ org' = [org EXCEPT !.pc = "t_done", !.kind = "absent"]
  /\ UNCHANGED <<san, dl, par>>
  /\ UNCHANGED prog_vars

\* an rmdir whose OSError is not caught
CleanupRmdirRaises ==
  /\ org.pc = "t_loop"
  /\ org.todo = {}
  /\ org.files # {} \/ org.subdirs # {}
  /\ org' = [org EXCEPT !.pc = "t_raised", !.raised = "OSError"]
  /\ UNCHANGED <<san, dl, par>>
  /\ UNCHANGED prog_vars

\* lines 177-180: the directory is not empty, rmdir raises OSError and the
\* except clause passes
CleanupRmdirFails ==
  /\ org.pc = "t_loop"
  /\ org.todo = {}
  /\ org.files # {} \/ org.subdirs # {}
  /\ org' = [org EXCEPT !.pc = "t_done"]
  /\ UNCHANGED <<san, dl, par>>
  /\ UNCHANGED prog_vars

NextCleanup ==
  \/ CleanupNoDir
  \/ CleanupList
  \/ CleanupListFails
  \/ \E f \in TmpNames : CleanupUnlink(f)
  \/ \E f \in TmpNames : CleanupUnlinkFails(f)
  \/ \E d \in SubDirs : CleanupSkipsDir(d)
  \/ CleanupRmdir
  \/ CleanupRmdirFails

SpecCleanup == InitCleanup /\ [][NextCleanup]_vars

\* ====================================================== download engine
\* An error message is a sequence of words; str(error).lower() lowers every
\* word, and a pattern occurs in a message when its words occur in it side by
\* side.
MAX_RETRIES == 3
RETRY_BACKOFF_BASE == 2
MaxWords == 3      \* words of the messages given to _is_retryable_error

Words == {"HTTP", "Error", "403", "404", "429", "Connection", "reset",
          "timeout", "Network", "temporary", "unavailable", "rate", "limit",
          "Video", "not", "found", "format"}

\* str.lower() of a word
Lower(w) ==
  CASE w = "HTTP" -> "http"
    [] w = "Error" -> "error"
    [] w = "Connection" -> "connection"
    [] w = "Network" -> "network"
    [] w = "Video" -> "video"
    [] w = "No" -> "no"
    [] w = "Request" -> "request"
    [] OTHER -> w

\* str(error).lower()
LowerAll(msg) == [k \in 1..Len(msg) |-> Lower(msg[k])]

\* pattern in error_str
Occurs(pattern, msg) ==
  \E k \in 0..(Len(msg) - Len(pattern)) :
     SubSeq(msg, k + 1, k + Len(pattern)) = pattern

\* the patterns that name an HTTP status, and nothing else
status_patterns == {<<"403">>, <<"429">>}

\* _is_retryable_error's retryable_patterns
retryable_patterns ==
  {<<"403">>, <<"429">>, <<"http", "error">>, <<"connection">>, <<"timeout">>,
   <<"network">>, <<"temporary">>, <<"unavailable">>, <<"rate", "limit">>}

\* an error that is never worth retrying
never_retryable(error) == FALSE

\* an error that is always worth retrying
always_retryable(error) == TRUE

\* _is_retryable_error
is_retryable_error(error) ==
  \E pattern \in retryable_patterns : Occurs(pattern, LowerAll(error))

\* --- _is_retryable_error called on any short message
InitClassify ==
  /\ ProgIdle
  /\ san = NoSan /\ org = NoOrg /\ par = NoPar
  /\ dl \in [pc : {"r_call"}, error : SeqsUpTo(Words, MaxWords), retryable : {FALSE}]

ClassifyReturns ==
  /\ dl.pc = "r_call"
  /\ dl' = [dl EXCEPT !.pc = "r_ret", !.retryable = is_retryable_error(dl.error)]
  /\ UNCHANGED <<san, org, par>>
  /\ UNCHANGED prog_vars

NextClassify == ClassifyReturns

SpecClassify == InitClassify /\ [][NextClassify]_vars

\* --- download_track called once
\* what yt-dlp raises in the model's runs
Errors == {<<"HTTP", "Error", "403">>, <<"HTTP", "Error", "404">>,
           <<"Connection", "reset">>, <<"Video", "not", "found">>,
           <<"No", "suitable", "format">>}

\* a backoff that does not grow
wait_time_flat(attempt) == RETRY_BACKOFF_BASE

\* line 160: RETRY_BACKOFF_BASE ** (attempt + 1)
wait_time(attempt) == RETRY_BACKOFF_BASE ^ (attempt + 1)

NoRaise == [type |-> "", video_id |-> NoId, about |-> <<>>]

InitDownload ==
  /\ ProgIdle
  /\ san = NoSan /\ org = NoOrg /\ par = NoPar
  /\ dl \in [pc : {"d_new"}, video_id : {"v1"}, max_retries : 0..MAX_RETRIES,
             attempt : {0}, log : {<<>>}, waits : {<<>>}, raised : {NoRaise},
             result : {<<>>}]

\* lines 122-129: the output directory is made and the options are built
DownloadSetup ==
  /\ dl.pc = "d_new"
  /\ dl' = [dl EXCEPT !.pc = "d_try"]
  /\ UNCHANGED <<san, org, par>>
  /\ UNCHANGED prog_vars

\* what download_track raises before its try block: the import of yt_dlp
\* (line 122) fails, or output_dir.mkdir (line 125) does
SetupErrors == {"ImportError", "OSError"}

\* lines 122-125: an exception before the try block; nothing converts it
DownloadSetupFails(t) ==
  /\ dl.pc = "d_new"
  /\ dl' = [dl EXCEPT !.pc = "d_raised",
                      !.raised = [type |-> t, video_id |-> NoId, about |-> <<>>]]
  /\ UNCHANGED <<san, org, par>>
  /\ UNCHANGED prog_vars

\* lines 133-149: the attempt downloads the file and it is found
AttemptSucceeds ==
  /\ dl.pc = "d_try"
  /\ dl' = [dl EXCEPT !.pc = "d_returned",
                      !.log = Append(@, [kind |-> "ok", error |-> <<>>, waited |-> FALSE]),
                      !.result = <<TmpPath(dl.video_id)>>]
  /\ UNCHANGED <<san, org, par>>
  /\ UNCHANGED prog_vars

\* lines 135-136 and 151-156: no info, or no file after the download;
\* download_track raises DownloadError itself and lets it through
AttemptIsEmpty(what) ==
  /\ dl.pc = "d_try"
  /\ dl' = [dl EXCEPT !.pc = "d_raised",
                      !.log = Append(@, [kind |-> "empty", error |-> what, waited |-> FALSE]),
                      !.raised = [type |-> "DownloadError", video_id |-> dl.video_id,
                                  about |-> what]]
  /\ UNCHANGED <<san, org, par>>
  /\ UNCHANGED prog_vars

\* lines 157-170: yt-dlp raises, the error is retryable and attempts remain:
\* sleep and go round the loop
AttemptFailsRetried(e) ==
  /\ dl.pc = "d_try"
  /\ dl.attempt < dl.max_retries /\ is_retryable_error(e)
  /\ dl' = [dl EXCEPT !.attempt = @ + 1,
                      !.log = Append(@, [kind |-> "exc", error |-> e, waited |-> TRUE]),
                      !.waits = Append(@, wait_time(dl.attempt))]
  /\ UNCHANGED <<san, org, par>>
  /\ UNCHANGED prog_vars

\* lines 157-159 and 171-177: yt-dlp raises and the loop is left; the
\* DownloadError names the video id and the last error
AttemptFailsFinal(e) ==
  /\ dl.pc = "d_try"
  /\ ~(dl.attempt < dl.max_retries /\ is_retryable_error(e))
  /\ dl' = [dl EXCEPT !.pc = "d_raised",
                      !.log = Append(@, [kind |-> "exc", error |-> e, waited |-> FALSE]),
                      !.raised = [type |-> "DownloadError", video_id |-> dl.video_id,
                                  about |-> e]]
  /\ UNCHANGED <<san, org, par>>
  /\ UNCHANGED prog_vars

NextDownload ==
  \/ DownloadSetup
  \/ \E t \in SetupErrors : DownloadSetupFails(t)
  \/ AttemptSucceeds
  \/ \E what \in {<<"No", "info", "extracted">>, <<"file", "not", "found">>} :
        AttemptIsEmpty(what)
  \/ \E e \in Errors : AttemptFailsRetried(e)
  \/ \E e \in Errors : AttemptFailsFinal(e)

SpecDownload == InitDownload /\ [][NextDownload]_vars

\* --- download_tracks_parallel called once, with or without a progress_callback
MaxTracks == 3     \* tracks given to download_tracks_parallel
MaxWorkers == 2    \* largest max_workers

NoResult == [kind |-> "-", filepath |-> <<>>, error |-> <<>>]

\* the futures of a call: one per track, in submission order
Futures == 1..Len(par.tracks)

\* the worker threads that are busy with a task
Busy == {j \in Futures : par.fut[j] = "running"}

\* calls: the futures whose task called download_track; callback: whether a
\* progress_callback was given; notified: the futures it was invoked for
InitParallel ==
  /\ ProgIdle
  /\ san = NoSan /\ org = NoOrg /\ dl = NoDl
  /\ \E tracks \in SeqsUpTo({normalize_track(RawTrack(id)) : id \in ItemIds}, MaxTracks),
        w \in 1..MaxWorkers, cb \in BOOLEAN :
        par = [pc |-> "p_run", tracks |-> tracks, max_workers |-> w,
               callback |-> cb,
               fut |-> [k \in 1..Len(tracks) |-> "queued"],
               out |-> [k \in 1..Len(tracks) |-> NoResult],
               calls |-> {}, taken |-> {}, notified |-> {},
               results |-> <<>>, raised |-> ""]

\* a pool without a bound: a queued task starts whatever the number of busy
\* threads
WorkerTakesUnbounded(k) ==
  /\ k \in Futures
  /\ par.fut[k] = "queued"
  /\ \A j \in 1..(k - 1) : par.fut[j] # "queued"
  /\ par' = [par EXCEPT !.fut[k] = "running"]
  /\ UNCHANGED <<san, org, dl>>
  /\ UNCHANGED prog_vars

\* lines 235-238: every track is submitted to ThreadPoolExecutor(max_workers);
\* a worker thread is free and takes the oldest queued task
WorkerTakes(k) ==
  /\ k \in Futures
  /\ par.fut[k] = "queued"
  /\ \A j \in 1..(k - 1) : par.fut[j] # "queued"
  /\ Cardinality(Busy) < par.max_workers
  /\ par' = [par EXCEPT !.fut[k] = "running"]
  /\ UNCHANGED <<san, org, dl>>
  /\ UNCHANGED prog_vars

\* a task without the check of lines 213-219: the track without a video id
\* is fetched like any other
WorkerMissingIdFetches(k) ==
  /\ k \in Futures
  /\ par.fut[k] = "running"
  /\ par.tracks[k].video_id = NoId
  /\ par' = [par EXCEPT !.fut[k] = "finished",
                        !.calls = @ \cup {k},
                        !.out[k] = [kind |-> "result", filepath |-> <<>>,
                                    error |-> <<"DownloadError">>]]
  /\ UNCHANGED <<san, org, dl>>
  /\ UNCHANGED prog_vars

\* _download_one lines 213-219: the track has no video id
WorkerMissingId(k) ==
  /\ k \in Futures
  /\ par.fut[k] = "running"
  /\ par.tracks[k].video_id = NoId
  /\ par' = [par EXCEPT !.fut[k] = "finished",
                        !.out[k] = [kind |-> "result", filepath |-> <<>>,
                                    error |-> <<"Missing video_id">>]]
  /\ UNCHANGED <<san, org, dl>>
  /\ UNCHANGED prog_vars

\* lines 220-226: download_track returns the path
WorkerDownloaded(k) ==
  /\ k \in Futures
  /\ par.fut[k] = "running"
  /\ par.tracks[k].video_id # NoId
  /\ par' = [par EXCEPT !.fut[k] = "finished",
                        !.calls = @ \cup {k},
                        !.out[k] = [kind |-> "result",
                                    filepath |-> <<TmpPath(par.tracks[k].video_id)>>,
                                    error |-> <<>>]]
  /\ UNCHANGED <<san, org, dl>>
  /\ UNCHANGED prog_vars

\* a task without the handler of lines 227-233: the DownloadError is stored
\* in the future
DownloadErrorEscapes(k) ==
  /\ k \in Futures
  /\ par.fut[k] = "running"
  /\ par.tracks[k].video_id # NoId
  /\ par' = [par EXCEPT !.fut[k] = "finished",
                        !.calls = @ \cup {k},
                        !.out[k] = [kind |-> "exception", filepath |-> <<>>,
                                    error |-> <<"DownloadError">>]]
  /\ UNCHANGED <<san, org, dl>>
  /\ UNCHANGED prog_vars

\* lines 227-233: download_track raises DownloadError (a permanent failure or
\* exhausted retries), returned as the error
WorkerDownloadError(k) ==
  /\ k \in Futures
  /\ par.fut[k] = "running"
  /\ par.tracks[k].video_id # NoId
  /\ par' = [par EXCEPT !.fut[k] = "finished",
                        !.calls = @ \cup {k},
                        !.out[k] = [kind |-> "result", filepath |-> <<>>,
                                    error |-> <<"DownloadError">>]]
  /\ UNCHANGED <<san, org, dl>>
  /\ UNCHANGED prog_vars

\* download_track raises something else (its setup failed); _download_one
\* catches only DownloadError, so the exception is stored in the future
WorkerRaises(k, t) ==
  /\ k \in Futures
  /\ par.fut[k] = "running"
  /\ par.tracks[k].video_id # NoId
  /\ par' = [par EXCEPT !.fut[k] = "finished",
                        !.calls = @ \cup {k},
                        !.out[k] = [kind |-> "exception", filepath |-> <<>>,
                                    error |-> <<t>>]]
  /\ UNCHANGED <<san, org, dl>>
  /\ UNCHANGED prog_vars

\* a collecting loop over the futures in submission order: a result is taken
\* only when every earlier future was taken
CollectInSubmissionOrder(k) ==
  /\ k \in Futures
  /\ par.pc = "p_run"
  /\ par.fut[k] = "finished" /\ k \notin par.taken
  /\ \A j \in 1..(k - 1) : j \in par.taken
  /\ par.out[k].kind = "result"
  /\ par' = [par EXCEPT !.taken = @ \cup {k},
                        !.notified = IF par.callback THEN @ \cup {k} ELSE @,
                        !.results = Append(@, [track |-> par.tracks[k],
                                               filepath |-> par.out[k].filepath,
                                               error |-> par.out[k].error])]
  /\ UNCHANGED <<san, org, dl>>
  /\ UNCHANGED prog_vars

\* lines 240-248: as_completed yields a finished future whose result is
\* appended; a progress_callback, if given, is invoked and returns
Collect(k) ==
  /\ k \in Futures
  /\ par.pc = "p_run"
  /\ par.fut[k] = "finished" /\ k \notin par.taken
  /\ par.out[k].kind = "result"
  /\ par' = [par EXCEPT !.taken = @ \cup {k},
                        !.notified = IF par.callback THEN @ \cup {k} ELSE @,
                        !.results = Append(@, [track |-> par.tracks[k],
                                               filepath |-> par.out[k].filepath,
                                               error |-> par.out[k].error])]
  /\ UNCHANGED <<san, org, dl>>
  /\ UNCHANGED prog_vars

\* lines 242-248: the result is appended and the progress_callback raises;
\* the call is not in a try, so the with block waits for the other workers
\* and the exception leaves the function
CollectCallbackRaises(k) ==
  /\ k \in Futures
  /\ par.pc = "p_run"
  /\ par.callback
  /\ par.fut[k] = "finished" /\ k \notin par.taken
  /\ par.out[k].kind = "result"
  /\ par' = [par EXCEPT !.pc = "p_raised", !.raised = "CallbackError",
                        !.taken = @ \cup {k},
                        !.notified = @ \cup {k},
                        !.results = Append(@, [track |-> par.tracks[k],
                                               filepath |-> par.out[k].filepath,
                                               error |-> par.out[k].error])]
  /\ UNCHANGED <<san, org, dl>>
  /\ UNCHANGED prog_vars

\* line 241: future.result() raises the stored exception; the with block
\* waits for the other workers and the exception leaves the function
CollectRaises(k) ==
  /\ k \in Futures
  /\ par.pc = "p_run"
  /\ par.fut[k] = "finished" /\ k \notin par.taken
  /\ par.out[k].kind = "exception"
  /\ par' = [par EXCEPT !.pc = "p_raised", !.raised = par.out[k].error[1]]
  /\ UNCHANGED <<san, org, dl>>
  /\ UNCHANGED prog_vars

\* line 250: every future was collected
ParallelReturns ==
  /\ par.pc = "p_run"
  /\ par.taken = Futures
  /\ par' = [par EXCEPT !.pc = "p_returned"]
  /\ UNCHANGED <<san, org, dl>>
  /\ UNCHANGED prog_vars

NextParallel ==
  \/ \E k \in 1..MaxTracks : WorkerTakes(k)
  \/ \E k \in 1..MaxTracks : WorkerMissingId(k)
  \/ \E k \in 1..MaxTracks : WorkerDownloaded(k)
  \/ \E k \in 1..MaxTracks : WorkerDownloadError(k)
  \/ \E k \in 1..MaxTracks, t \in SetupErrors : WorkerRaises(k, t)
  \/ \E k \in 1..MaxTracks : Collect(k)
  \/ \E k \in 1..MaxTracks : CollectCallbackRaises(k)
  \/ \E k \in 1..MaxTracks : CollectRaises(k)
  \/ ParallelReturns

SpecParallel == InitParallel /\ [][NextParallel]_vars

\* =============================================================== claims
\* the ledger as the running command loaded it
st0 == LoadDoc(doc0)

\* the sync command has listed its segments and filtered the target list
Planned == cmd.name = "sync" /\ pc \in {"loop", "write", "done", "exit0"}

\* the cleanup command has computed its orphans
Reported == cmd.name = "clean" /\ pc \in {"c_report", "c_loop", "write", "done"}

OrphanIds == {orphaned[k].video_id : k \in 1..Len(orphaned)}

\* C1: in a sync run, when organize_track fails with OrganizationError for an
\* item, the item is counted as failed and no ledger record is written for
\* it (a record is written only after the file was moved to its organized
\* path, so no record holds the item's temp path).
C1_RecordOnlyAfterMove ==
  (cmd.name = "sync" /\ last.org = "OrganizationError") =>
     /\ last.counted = "failed"
     /\ is_downloaded(st, last.id) => st.tracks[last.id].filepath # TmpPath(last.id)

\* C2: in the cleanup flow, when fetching a segment (a synced playlist or the
\* liked songs) fails, no item that segment lists is reported as an orphan.
C2_FailedSegmentIsUnknown ==
  Reported =>
     \A s \in seg_failed : OrphanIds \cap LiveIds(remote[s]) = {}

\* C3: an item acquired by a sync of playlist P that P still lists remotely is
\* never reported as orphaned by a later cleanup (stated for cleanups in which
\* no listing failed).
C3_ListedItemNotOrphaned ==
  (Reported /\ seg_failed = {}) =>
     \A id \in OrphanIds : \A p \in via[id] \cap Playlists :
        id \notin LiveIds(remote[p])

\* the items of a target list that carry no identifier
WithoutId(tracks) == SelectSeq(tracks, LAMBDA t : t.video_id = NoId)

\* the previous command was a sync over the same target list that ran to its
\* end with every fetch and every organize succeeding, and this one is a
\* non-force sync that has filtered its list
SecondRun ==
  /\ Planned
  /\ ~cmd.force
  /\ prev.ok
  /\ prev.L = all_tracks

\* C4 (as claimed): in such a second run filterNew over L is empty and no
\* item is fetched.
C4_SecondRunFilterEmpty == SecondRun => (todo = <<>> /\ fetch_log = <<>>)

\* C4 (amended): in such a second run nothing is fetched, every item of L
\* with an identifier is skipped, and filterNew over L holds exactly the
\* items of L without identifier.
C4_SecondRunFetchesNothing ==
  SecondRun => (fetch_log = <<>> /\ todo = WithoutId(all_tracks))

\* a second run over a list that holds an item with an identifier, which the
\* first run downloaded
C4_Witness ==
  /\ SecondRun
  /\ pc = "exit0"
  /\ \E k \in 1..Len(all_tracks) :
        /\ all_tracks[k].video_id # NoId
        /\ st.tracks[all_tracks[k].video_id].filepath.dir = "org"

\* C5: whatever an item's download, tag or organize step raises, the sync run
\* is not aborted by it.
C5_ItemErrorNeverAborts ==
  (cmd.name = "sync" /\ last # NoItem) => pc # "aborted"

\* C6: in a sync over several segments, the failure of one segment's listing
\* does not abort the run.
C6_SegmentFailureSkipsOnlyIt ==
  (cmd.name = "sync" /\ Len(cmd.sel) > 1 /\ seg_failed # {}) => pc # "aborted"

\* C7: in the cleanup flow the record of an orphan is removed only when its
\* file is gone, in memory and in the document the cleanup persists.
C7_RecordRemovedOnlyWithFile ==
  (cmd.name = "clean" /\ pc \in {"c_loop", "write", "done"}) =>
     \A k \in 1..i :
        /\ ~is_downloaded(st, orphaned[k].video_id) => orphaned[k].filepath \notin files
        /\ (pc = "done" /\ ~is_downloaded(LoadDoc(doc), orphaned[k].video_id))
              => orphaned[k].filepath \notin files

\* C8: a non-force sync run that reaches its summary has fetched exactly the
\* non-empty identifiers of the target list without a record at the start of
\* the run, each of them once (stated for runs over distinct segments in
\* which no download and no organize step failed).
C8_FetchedOncePerNewId ==
  (/\ cmd.name = "sync" /\ ~cmd.force /\ pc = "done"
   /\ run_ok /\ Cardinality(Range(cmd.sel)) = Len(cmd.sel)) =>
     /\ Range(fetch_log) =
          {all_tracks[k].video_id : k \in 1..Len(all_tracks)} \ ({NoId} \cup DOMAIN st0.tracks)
     /\ \A a, b \in 1..Len(fetch_log) : fetch_log[a] = fetch_log[b] => a = b

\* C9: at every instant the document is either the complete ledger that was
\* persisted before or the complete new one.
C9_PersistAtomic == doc = doc0 \/ doc = TextDoc(st)

\* a document that is present and is not the JSON text of a ledger
Malformed(d) ==
  \/ d.k \in {"trunc", "partial", "garbage", "unreadable", "undecodable"}
  \/ d.k = "text" /\ (LoadDoc(d).shape.top # "dict" \/ LoadDoc(d).shape.tracks \in {"list", "null"})

\* C10: loading never raises, a missing or malformed document gives the fresh
\* ledger, and no operation on the loaded ledger raises.
C10_LoadAlwaysUsable ==
  /\ exc = ""
  /\ (op.name = "load" /\ (doc.k = "missing" \/ Malformed(doc))) => st = FreshState

\* the sync run has reached its summary and its ledger is persisted
SyncDone == cmd.name = "sync" /\ pc = "done"

\* the ledger the next run will load
Persisted == LoadDoc(doc)

\* after the run an id is recorded iff it was recorded before or was counted
\* as downloaded in the run
RecordIffPriorOrDownloaded ==
  \A id \in VideoIds :
     is_downloaded(Persisted, id) <=> (is_downloaded(st0, id) \/ id \in tally.got)

\* the next run's filterNew over the same list returns every item with this id
ReturnedAgain(id) ==
  \A k \in 1..Len(all_tracks) :
     all_tracks[k].video_id = id =>
        \E j \in 1..Len(get_new_tracks(Persisted, all_tracks)) :
           get_new_tracks(Persisted, all_tracks)[j] = all_tracks[k]

C15_SanitizedNameIsSafe ==
  san.pc = "s_ret" =>
    /\ Len(san.result) <= san.max_length
    /\ \A k \in 1..Len(san.result) : san.result[k] \notin InvalidChars \cup ControlChars
    /\ san.result # <<>>
    /\ san.result[1] \notin {".", " "}
    /\ san.result[Len(san.result)] \notin {".", " "}

\* the string t occurs in the string name
Contains(name, t) ==
  \E k \in 0..(Len(name) - Len(t)) : SubSeq(name, k + 1, k + Len(t)) = t

\* the string name ends with the string t
EndsWith(name, t) ==
  Len(name) >= Len(t) /\ SubSeq(name, Len(name) - Len(t) + 1, Len(name)) = t

\* C12: the collision loop terminates: every increment of the counter tries a
\* name not tried before, so a free one is found after at most as many
\* increments as the target directory holds files.
C12_CollisionLoopTerminates ==
  org.pc = "o_loop" => org.counter <= Cardinality(org.dir) + 1

\* C13: organize_track never overwrites: the files organized with the same
\* metadata are as many distinct existing paths as calls that moved a file,
\* the second carrying the suffix (1), the third (2), and so on.
C13_DistinctSuffixedPaths ==
  /\ Cardinality(org.dir) = Len(org.made)
  /\ \A j \in 1..Len(org.made) :
       /\ org.made[j] \in org.dir
       /\ j > 1 => Contains(org.made[j], <<"(">> \o Dec(j - 1) \o <<")">>)

Transient == {<<"HTTP", "Error", "403">>, <<"Connection", "reset">>}
Permanent == {<<"Video", "not", "found">>, <<"No", "suitable", "format">>}

\* every attempt so far failed with a transient error
AllTransient ==
  \A k \in 1..Len(dl.log) : dl.log[k].kind = "exc" /\ dl.log[k].error \in Transient

\* C16: when every attempt fails with a retryable error there are
\* max_retries + 1 attempts and max_retries waits, the k-th of 2^k time units,
\* none after the last attempt, and DownloadError is raised.
C16_ExhaustedRetries ==
  AllTransient =>
    /\ dl.waits = [k \in 1..Len(dl.waits) |-> 2 ^ k]
    /\ (dl.pc = "d_raised" /\ dl.log # <<>>) =>
         /\ Len(dl.log) = dl.max_retries + 1
         /\ Len(dl.waits) = dl.max_retries
         /\ ~dl.log[Len(dl.log)].waited
         /\ dl.raised.type = "DownloadError"

\* four attempts, all transient failures, waits of 2, 4 and 8
C16_Witness ==
  /\ dl.pc = "d_raised" /\ dl.log # <<>> /\ AllTransient
  /\ dl.max_retries = MAX_RETRIES
  /\ dl.waits = <<2, 4, 8>>

\* the attempt's failure is a permanent one
PermanentFailure(a) ==
  \/ a.kind = "empty"
  \/ a.kind = "exc" /\ a.error \in Permanent

\* C17: a permanent failure at any attempt is the last thing the fetch does:
\* no wait after it, no further attempt, and DownloadError is raised with
\* that error and the video id.
C17_PermanentFailureEndsFetch ==
  \A k \in 1..Len(dl.log) :
     PermanentFailure(dl.log[k]) =>
        /\ k = Len(dl.log)
        /\ ~dl.log[k].waited
        /\ Len(dl.waits) = k - 1
        /\ dl.pc = "d_raised"
        /\ dl.raised = [type |-> "DownloadError", video_id |-> dl.video_id,
                        about |-> dl.log[k].error]

\* a permanent error ended the fetch at a later attempt, retries remaining
C17_Witness ==
  /\ dl.pc = "d_raised"
  /\ Len(dl.log) = 2 /\ dl.max_retries = MAX_RETRIES
  /\ dl.log[2].kind = "exc" /\ dl.log[2].error \in Permanent

\* C18: transient failures with attempts remaining are each followed by a
\* wait, and a success after k of them returns the path after exactly k waits.
C18_SuccessAfterRetries ==
  /\ \A k \in 1..Len(dl.log) :
        (dl.log[k].kind = "exc" /\ dl.log[k].error \in Transient
           /\ k <= dl.max_retries) => dl.log[k].waited
  /\ dl.pc = "d_returned" =>
        /\ dl.result = <<TmpPath(dl.video_id)>>
        /\ dl.raised = NoRaise
        /\ Len(dl.log) <= dl.max_retries + 1
        /\ Len(dl.waits) = Len(dl.log) - 1
        /\ \A k \in 1..(Len(dl.log) - 1) : dl.log[k].kind = "exc" /\ dl.log[k].waited

\* two transient failures, then a success
C18_Witness ==
  /\ dl.pc = "d_returned"
  /\ Len(dl.log) = 3 /\ Len(dl.waits) = 2
  /\ dl.log[1].error \in Transient /\ dl.log[2].error \in Transient

\* the network-class signals: connection, timeout, network, HTTP 403 and 429,
\* temporary, unavailable and rate-limit phrasing
NetworkClass(error) ==
  \E pattern \in {<<"connection">>, <<"timeout">>, <<"network">>, <<"403">>,
                  <<"429">>, <<"temporary">>, <<"unavailable">>, <<"rate", "limit">>} :
     Occurs(pattern, LowerAll(error))

ParallelEnded == par.pc \in {"p_returned", "p_raised"}

\* C20: the dispatcher returns one result per input item, each with exactly
\* one of filepath and error, and no failure of an item's fetch leaves it as
\* an exception.
C20_OneResultPerItem ==
  ParallelEnded =>
    /\ par.pc = "p_returned"
    /\ Len(par.results) = Len(par.tracks)
    /\ \E f \in [Futures -> Futures] :
          /\ \A a, b \in Futures : f[a] = f[b] => a = b
          /\ \A k \in Futures : par.results[k].track = par.tracks[f[k]]
    /\ \A k \in 1..Len(par.results) :
          (par.results[k].filepath = <<>>) # (par.results[k].error = <<>>)

\* the items whose fetch failed for good: download_track raised DownloadError
\* (a permanent failure or exhausted retries) or the item has no video id
FailedItems == {k \in Futures : par.out[k].error # <<>>}

\* no task met an exception other than DownloadError and no callback raised
OnlyDownloadErrors ==
  /\ \A k \in Futures : \A t \in SetupErrors : par.out[k].error # <<t>>
  /\ par.raised # "CallbackError"

\* C21: in a dispatch of n items of which k fail with DownloadError, the call
\* returns n results, k of them failures and n-k successes, each item with
\* its own outcome: a failing item neither cancels nor blocks its siblings.
C21_FailuresLeaveSiblingsAlone ==
  OnlyDownloadErrors =>
    /\ par.pc # "p_raised"
    /\ \A k \in Futures : par.out[k].kind # "exception"
    /\ par.pc = "p_returned" =>
          /\ Len(par.results) = Len(par.tracks)
          /\ \A k \in Futures : par.fut[k] = "finished"
          /\ Cardinality({j \in 1..Len(par.results) : par.results[j].error # <<>>})
               = Cardinality(FailedItems)
          /\ Cardinality({j \in 1..Len(par.results) : par.results[j].filepath # <<>>})
               = Len(par.tracks) - Cardinality(FailedItems)

\* three items, the first fetched one fails with DownloadError while a
\* sibling is still queued, and the call returns one failure and two successes
C21_Witness ==
  /\ par.pc = "p_returned"
  /\ Len(par.tracks) = 3
  /\ par.max_workers = 1
  /\ par.out[1].error = <<"DownloadError">>
  /\ par.out[2].error = <<>> /\ par.out[3].error = <<>>

\* the result of an item without a video id
MissingIdResult(k) ==
  [track |-> par.tracks[k], filepath |-> <<>>, error |-> <<"Missing video_id">>]

\* C22 (as stated): an item without identifier gets its failure result
\* without a fetch and without ever occupying a worker of the pool.
C22_MissingIdTakesNoSlot ==
  \A k \in Futures :
    par.tracks[k].video_id = NoId =>
      /\ k \notin par.calls
      /\ k \notin Busy
      /\ k \in par.taken =>
            \E j \in 1..Len(par.results) : par.results[j] = MissingIdResult(k)

\* C22: an item without identifier is never fetched and its result is the
\* failure "Missing video_id" without filepath; the check is made by the
\* task submitted to the pool, which occupies a worker while it runs.
C22_MissingIdNeverFetched ==
  \A k \in Futures :
    par.tracks[k].video_id = NoId =>
      /\ k \notin par.calls
      /\ par.fut[k] = "finished" =>
            par.out[k] = [kind |-> "result", filepath |-> <<>>,
                          error |-> <<"Missing video_id">>]
      /\ k \in par.taken =>
            \E j \in 1..Len(par.results) : par.results[j] = MissingIdResult(k)

\* an item without identifier waited behind a fetch for the only worker and
\* its failure result was returned
C22_Witness ==
  /\ par.pc = "p_returned"
  /\ par.max_workers = 1
  /\ Len(par.tracks) = 2
  /\ par.tracks[1].video_id # NoId /\ par.tracks[2].video_id = NoId
  /\ par.results[2] = MissingIdResult(2)
  /\ par.calls = {1}

\* C22, the sequential loop: an item without identifier is counted as failed
\* and nothing is fetched for it.
C22_SequentialCountsFailed ==
  (last.id = NoId /\ last.counted # "-") =>
    /\ last.counted = "failed"
    /\ \A j \in 1..Len(fetch_log) : fetch_log[j] # NoId

\* C23: when a progress callback raises for one result, the call still
\* returns the full result list with the callback invoked for every item.
C23_CallbackErrorDoesNotAbort ==
  (ParallelEnded /\ \A k \in Futures : par.out[k].kind = "result") =>
    /\ par.pc = "p_returned"
    /\ Len(par.results) = Len(par.tracks)
    /\ par.callback => par.notified = Futures

\* C24: the number of fetches in flight never exceeds max_workers.
C24_InFlightWithinBound ==
  /\ par.max_workers >= 1
  /\ Cardinality(Busy) <= par.max_workers

\* every worker is busy and a submitted item waits for one
C24_Witness ==
  /\ par.max_workers = 2
  /\ Cardinality(Busy) = 2
  /\ \E k \in Futures : par.fut[k] = "queued"

\* the operation called last returned
Returned(name) == op.name = name /\ op.raised = ""

\* C25: right after mark_downloaded(id, ...) returns is_downloaded(id) is
\* true, and right after remove_track(id) returns it is false, whatever
\* operations preceded.
C25_AcquiredAfterRecordNotAfterRemove ==
  /\ Returned("mark_downloaded") =>
        is_downloaded_raises(st) = "" /\ is_downloaded(st, op.arg)
  /\ Returned("remove_track") =>
        is_downloaded_raises(st) = "" /\ ~is_downloaded(st, op.arg)

\* a record written by mark_downloaded was removed by the next call
C25_Witness ==
  /\ Returned("remove_track")
  /\ op.follows = "mark_downloaded"
  /\ is_downloaded(op.before, op.arg)

\* C26: get_orphaned_tracks(current) returns one entry for every record whose
\* id is not in current, none for an id in current, each with the record's
\* content, and leaves the ledger as it was.
C26_OrphansExactAndReadOnly ==
  Returned("get_orphaned_tracks") =>
    /\ st = op.before
    /\ Len(op.items) = Cardinality(DOMAIN st.tracks \ op.current)
    /\ {op.items[k].video_id : k \in 1..Len(op.items)} = DOMAIN st.tracks \ op.current
    /\ \A k \in 1..Len(op.items) :
          op.items[k].filepath = st.tracks[op.items[k].video_id].filepath

\* of two records one is listed in current and the other is returned
C26_Witness ==
  /\ Returned("get_orphaned_tracks")
  /\ Cardinality(DOMAIN st.tracks) = 2
  /\ Cardinality(op.current) = 1
  /\ Len(op.items) = 1

\* C27: get_new_tracks(items) returns the items whose id has no record, each
\* once, in the order of the input, and leaves the ledger as it was.
C27_NewItemsInInputOrder ==
  Returned("get_new_tracks") =>
    /\ st = op.before
    /\ \E f \in [1..Len(op.items) -> 1..Len(op.input)] :
          /\ \A a, b \in 1..Len(op.items) : a < b => f[a] < f[b]
          /\ \A a \in 1..Len(op.items) : op.items[a] = op.input[f[a]]
          /\ {f[a] : a \in 1..Len(op.items)}
               = {k \in 1..Len(op.input) : op.input[k].video_id \notin DOMAIN st.tracks}

\* a recorded item between two new ones is dropped and the two keep their
\* order
C27_Witness ==
  /\ Returned("get_new_tracks")
  /\ Len(op.input) = 3
  /\ op.input[2].video_id \in DOMAIN st.tracks
  /\ op.items = <<op.input[1], op.input[3]>>
  /\ op.input[1] # op.input[3]

\* C28: when tagging an item fails with MetadataError the item is not
\* counted as failed, and once organize_track has moved it, its file is at
\* the final path, the ledger records it with that path and it is counted
\* as downloaded.
C28_TagFailureStillOrganized ==
  (pc = "loop" /\ last.tag = "MetadataError") =>
    /\ last.dl = "ok"
    /\ last.counted # "failed"
    /\ last.id \notin tally.lost \/ last.id \in tally.got
    /\ last.org = "ok" =>
          /\ last.counted = "downloaded"
          /\ downloaded >= 1
          /\ is_downloaded(st, last.id)
          /\ st.tracks[last.id].filepath.dir = "org"
          /\ st.tracks[last.id].filepath \in files
          /\ TmpPath(last.id) \notin files

\* an item whose tagging failed was organized, while no item of the run
\* failed
C28_Witness ==
  /\ pc = "loop"
  /\ last.tag = "MetadataError" /\ last.org = "ok"
  /\ downloaded = 1 /\ failed = 0
  /\ st.tracks[last.id].filepath = OrgPath(last.id, 0)

\* two ledgers hold the same acquired ids, the same records, the same
\* segment records and the same last-sync value
SameLedger(a, b) ==
  /\ DOMAIN a.tracks = DOMAIN b.tracks
  /\ a.tracks = b.tracks
  /\ a.playlists = b.playlists
  /\ a.last_sync = b.last_sync

\* C29: after any sequence of mark_downloaded, remove_track,
\* mark_playlist_synced and update_last_sync, save followed by a load of the
\* same path yields the same ids, records, playlist records and last_sync.
C29_SaveLoadRoundTrip ==
  /\ Returned("save") =>
        /\ LoadRaises(doc) = ""
        /\ SameLedger(LoadDoc(doc), st)
  /\ (Returned("load") /\ op.follows = "save") =>
        SameLedger(st, op.before)

\* a ledger with a record whose title needs escaping and a playlist record
\* was saved and loaded again
C29_Witness ==
  /\ Returned("load") /\ op.follows = "save"
  /\ \E id \in DOMAIN st.tracks : st.tracks[id].title = "e-acute"
  /\ DOMAIN st.playlists # {}
  /\ st = op.before

\* C30: organize_track on a source path that does not exist raises
\* OrganizationError and leaves the disk as it was: no target directory is
\* made and no file is moved.
C30_MissingSourceChangesNothing ==
  org.missing =>
    /\ org.pc = "o_idle"
    /\ org.raised = "OrganizationError"
    /\ org.dir = org.before.dir
    /\ org.target_dir = org.before.target_dir

\* the first call is made on a missing source: the target directory does
\* not exist afterwards
C30_Witness ==
  /\ org.missing
  /\ org.calls = 1
  /\ ~org.target_dir
  /\ org.dir = {}

\* C31: a clean run with --dry-run, or one whose prompt was declined (or
\* that found nothing to do), deletes no file and changes neither the ledger
\* in memory nor the document: every step that leaves a clean command in
\* dry-run mode, or before or at its early exit, keeps the files and the
\* document, and the ledger in memory is the loaded document.
C31_DryRunOrDeclinedChangesNothing ==
  [][(cmd'.name = "clean"
        /\ (cmd'.dry_run \/ pc' \in {"c_fetch", "c_report", "exit0"}))
       => (files' = files /\ doc' = doc /\ st' = LoadDoc(doc'))]_vars

\* a clean run that listed an orphan whose file exists ended at the declined
\* prompt
C31_Witness ==
  /\ cmd.name = "clean" /\ pc = "exit0"
  /\ ~cmd.dry_run /\ ~cmd.yes
  /\ orphaned # <<>>
  /\ orphaned[1].filepath \in files
  /\ doc = doc0 /\ st = LoadDoc(doc)

\* the ids whose record this run wrote or rewrote
AddedInRun ==
  {id \in DOMAIN st.tracks :
     id \notin DOMAIN st0.tracks \/ st.tracks[id] # st0.tracks[id]}

\* C32: when a sync run has ended (document persisted, temp directory
\* swept), every record the run added stores a path where a file exists,
\* and none stores a path in the temp directory.
C32_AddedRecordsPointAtFiles ==
  (cmd.name = "sync" /\ pc = "done") =>
    \A id \in AddedInRun :
      /\ st.tracks[id].filepath \in files
      /\ st.tracks[id].filepath.dir # "tmp"

\* C33: at every point of the clean loop, where the process may be killed,
\* the persisted document holds no record of the orphan whose file the run
\* has just unlinked.
C33_PersistedAfterEachRemoval ==
  (cmd.name = "clean" /\ pc = "c_loop" /\ last.counted = "unlinked") =>
    ~is_downloaded(LoadDoc(doc), last.id)

\* C34: a sync run persists once, after the last item of the batch and
\* after update_last_sync: while the run fetches and processes items the
\* document is the one the run started with (so a crash mid-batch leaves
\* it), the save begins only when every item was processed and last_sync
\* was set, and the run that ends holds the document of its final state.
C34_PersistOnceAfterBatch ==
  cmd.name = "sync" =>
    /\ pc \in {"fetch", "loop"} => doc = doc0
    /\ pc = "write" => (doc = TruncDoc /\ i = Len(todo) /\ st.last_sync = runs)
    /\ pc = "done" => (doc = TextDoc(st) /\ i = Len(todo) /\ st.last_sync = runs)
    /\ pc = "aborted" => doc \in {doc0, PartialDoc}

\* two items were downloaded and the document written at the end holds both
C34_Witness ==
  /\ cmd.name = "sync" /\ pc = "done"
  /\ downloaded = 2
  /\ Len(todo) = 2
  /\ doc # doc0
  /\ Cardinality(DOMAIN LoadDoc(doc).tracks) = 2

\* C35: while the dispatcher collects, the result of every finished fetch
\* can be collected (and its callback invoked) at once, whatever the other
\* items are doing: nothing makes it wait for an item still queued or
\* running.
C35_FinishedIsCollectedWithoutWaiting ==
  \A k \in 1..MaxTracks :
    (/\ k \in Futures
     /\ par.pc = "p_run"
     /\ par.fut[k] = "finished" /\ k \notin par.taken
     /\ par.out[k].kind = "result")
      => ENABLED Collect(k)

\* the second item's result was collected and reported to the callback
\* while the first, submitted earlier, is still running
C35_Witness ==
  /\ par.pc = "p_run"
  /\ Len(par.tracks) >= 2
  /\ par.callback
  /\ par.fut[1] = "running"
  /\ 2 \in par.taken /\ 2 \in par.notified
  /\ par.results[1].track = par.tracks[2]

\* the futures whose task is inside download_track
Fetching == {k \in Busy : par.tracks[k].video_id # NoId}

\* C36: no two fetches running at the same time write to the same temp path.
C36_NoSharedTempPath ==
  \A j, k \in Fetching :
    j # k => TmpPath(par.tracks[j].video_id) # TmpPath(par.tracks[k].video_id)

\* sync_command's skipped_count (line 115)
skipped_count == Len(all_tracks) - Len(todo)

\* C37: in a sync run every processed item has incremented exactly one of
\* downloaded and failed, and at the summary, forced or not,
\* total = downloaded + skipped + failed with total the length of the
\* target list.
C37_SummaryAddsUp ==
  cmd.name = "sync" =>
    /\ pc = "loop" => downloaded + failed = i
    /\ pc = "done" =>
          /\ downloaded + failed = Len(todo)
          /\ Len(all_tracks) = downloaded + skipped_count + failed
          /\ cmd.force => skipped_count = 0

\* a run reaches its summary with one item downloaded, one failed and none
\* skipped
C37_Witness ==
  /\ cmd.name = "sync" /\ pc = "done"
  /\ Len(all_tracks) = 2
  /\ downloaded = 1 /\ failed = 1

\* the operations that change the ledger in memory
Mutators ==
  {"mark_downloaded", "remove_track", "mark_playlist_synced", "update_last_sync"}

\* C38: mark_downloaded, remove_track, mark_playlist_synced and
\* update_last_sync leave the backing document as it is: only save writes
\* it.
C38_MutatorsDoNotPersist ==
  [][(nops' = nops + 1 /\ op'.name \in Mutators) => doc' = doc]_vars

\* a record was removed in memory and the document, not saved since the
\* load, still holds it
C38_Witness ==
  /\ Returned("remove_track")
  /\ doc = doc0
  /\ is_downloaded(LoadDoc(doc), op.arg)
  /\ ~is_downloaded(st, op.arg)

\* a call of organize_track on an existing source has ended
OrganizeEnded == org.pc = "o_idle" /\ org.calls >= 1 /\ ~org.missing

\* C39: after organize_track returns the source is gone and the target
\* exists, and after no outcome do both the source and a copy at the
\* target exist.
C39_NeverTwoCopies ==
  OrganizeEnded =>
    /\ org.raised = "" => (~org.source /\ org.target \in org.dir)
    /\ ~(org.source /\ org.target \in org.dir)

====
